---- MODULE Spec2Model ----
(***************************************************************************)
(* Model of the client-side analytics core of the repository:              *)
(*   - the change log kept in localStorage (change-logger),                *)
(*   - the metrics collector AdvancedChangeLogger,                         *)
(*   - the rule engine AIAnalyticsEngine with its three collections.       *)
(* Time is counted in milliseconds.  `now` is performance.now() (time      *)
(* since page load); Date.now() is TimeOrigin + now.                       *)
(***************************************************************************)
EXTENDS Integers, Sequences, FiniteSets, TLC

VARIABLES
    now,                 \* performance.now(): ms since page load
    nextId,              \* per id prefix (change_, op_, anomaly_, insight_, rec_): the next
                         \* fresh Date.now()/Math.random() suffix
    store,               \* localStorage["dewillemstad_change_history"], newest first
    lastCall,            \* outcome of the last direct call, as its caller sees it
    performanceMetrics,  \* AdvancedChangeLogger.performanceMetrics
    userBehaviorMetrics, \* AdvancedChangeLogger.userBehaviorMetrics
    systemHealthMetrics, \* AdvancedChangeLogger.systemHealthMetrics
    clickPath,           \* AdvancedChangeLogger.clickPath
    calls,               \* logChangeWithPerformance calls, in flight or settled
    insights,            \* AIAnalyticsEngine.insights
    anomalies,           \* AIAnalyticsEngine.anomalies
    recommendations      \* AIAnalyticsEngine.recommendations

vars == <<now, nextId, store, lastCall, performanceMetrics, userBehaviorMetrics,
          systemHealthMetrics, clickPath, calls, insights, anomalies, recommendations>>

loggerVars == <<performanceMetrics, userBehaviorMetrics, systemHealthMetrics, clickPath>>
engineVars == <<insights, anomalies, recommendations>>

----------------------------------------------------------------------------
(* Bounds of the model *)

MaxAppends == 3
MaxCalls == 2
PrefillLen == 998
MaxItems == 2
MaxSnapshots == 1
MaxTicks == 2
MaxAge == 3
TableLogLen == 21
Overshoot == 1
MaxClears == 3
MaxTrendSnapshots == 6
MaxSeconds == 6

----------------------------------------------------------------------------
(* Program constants and JavaScript helpers *)

MaxLogs == 1000
MaxMetrics == 1000
Day == 24 * 60 * 60 * 1000
Week == 7 * Day
\* Date.now() at page load; any epoch time is far more than a day
TimeOrigin == 2 * Day

DateNow == TimeOrigin + now

Min(a, b) == IF a < b THEN a ELSE b
Max(a, b) == IF a > b THEN a ELSE b

\* JavaScript Array.prototype.slice(0, n)
SliceHead(s, n) == SubSeq(s, 1, Min(Len(s), n))
\* JavaScript Array.prototype.slice(-n)
SliceTail(s, n) == SubSeq(s, Max(1, Len(s) - n + 1), Len(s))

\* The clock moves between event-loop turns.
Advance(d, limit) ==
    /\ now + d <= limit
    /\ now' = now + d
    /\ UNCHANGED <<nextId, store, lastCall, loggerVars, calls, engineVars>>

----------------------------------------------------------------------------
(* change-logger *)

\* The fields of LogChangeParams that reach the stored entry and that the
\* analytics read; "" stands for an absent optional string, 0 for an absent count.
LogParams ==
    { [type |-> "UPDATE", operation |-> "ASSIGN_TABLE", batchId |-> "",
       errorDetails |-> "", affectedCount |-> 0],
      [type |-> "BULK_OPERATION", operation |-> "CLEAR_ALL_ASSIGNMENTS", batchId |-> "batch_1",
       errorDetails |-> "", affectedCount |-> 3],
      [type |-> "BULK_OPERATION", operation |-> "AUTO_ASSIGN_TABLES", batchId |-> "batch_1",
       errorDetails |-> "", affectedCount |-> 3] }

\* What the "clear all assignments" button logs
ClearAllParams == CHOOSE p \in LogParams : p.operation = "CLEAR_ALL_ASSIGNMENTS"

NewEntry(params, id) ==
    [ id |-> id,
      timestamp |-> DateNow,
      action_type |-> params.type,
      operation |-> params.operation,
      batch_id |-> params.batchId,
      error_details |-> params.errorDetails,
      affected_count |-> params.affectedCount ]

\* Entries written by earlier page loads: ids 0, -1, ..., newest first.
PrefilledStore(n) ==
    [ i \in 1..n |->
        [ id |-> 1 - i, timestamp |-> 0, action_type |-> "UPDATE", operation |-> "UPDATE_GUEST",
          batch_id |-> "", error_details |-> "", affected_count |-> 0 ] ]

getChangeHistory == store

\* Faulty variant: the new entry goes last
UpdatedLogs_append(entry, existingLogs) == SliceHead(existingLogs \o <<entry>>, MaxLogs)
\* [entry, ...existingLogs].slice(0, 1000)
UpdatedLogs(entry, existingLogs) == SliceHead(<<entry>> \o existingLogs, MaxLogs)

\* The try block of logChange: the store it leaves and whether it threw.
\* writeOk = FALSE when localStorage.setItem throws (quota, storage disabled).
LogChangeTry(params, id, writeOk) ==
    IF writeOk THEN [store |-> UpdatedLogs(NewEntry(params, id), getChangeHistory), threw |-> FALSE]
    ELSE [store |-> store, threw |-> TRUE]

\* Faulty variant: the catch block rethrows
LogChangeOutcome_rethrow(threw) == IF threw THEN "threw" ELSE "returned"
\* The catch block of logChange: console.error, nothing is rethrown.
LogChangeOutcome(threw) == "returned"

\* A fresh id with the given prefix is taken
Fresh(prefix) == nextId[prefix]
TakeIds(prefix, n) == [nextId EXCEPT ![prefix] = @ + n]

\* What the caller of the last direct call or timer callback saw
\* (dashboard: the ids of the three lists of a returned AIInsightsDashboard)
NoDashboard == [insights |-> <<>>, anomalies |-> <<>>, recommendations |-> <<>>]
Called(op, arg, outcome, ok) ==
    [op |-> op, arg |-> arg, outcome |-> outcome, ok |-> ok, dashboard |-> NoDashboard]

logChange(params, writeOk) ==
    LET r == LogChangeTry(params, Fresh("change"), writeOk) IN
    /\ store' = r.store
    /\ nextId' = TakeIds("change", 1)
    /\ lastCall' = Called("logChange", Fresh("change"), LogChangeOutcome(r.threw), writeOk)
    /\ UNCHANGED <<now, loggerVars, calls, engineVars>>

clearChangeHistory ==
    /\ store # <<>>
    /\ store' = <<>>
    /\ lastCall' = Called("clearChangeHistory", 0, "returned", TRUE)
    /\ UNCHANGED <<now, nextId, loggerVars, calls, engineVars>>

NoCall == Called("none", 0, "returned", TRUE)

IdPrefixes == {"change", "op", "anomaly", "insight", "rec"}

----------------------------------------------------------------------------
(* advanced-change-logger: the metrics collector *)

\* A JavaScript number that need not be an integer, kept as a fraction n/d, d > 0.
Rat(n, d) == [n |-> n, d |-> d]
RatGT(r, k) == r.n > k * r.d
RatLT(r, k) == r.n < k * r.d

\* performance.memory.usedJSHeapSize in MB, as the browser reports it
MemoryReadings == {40, 90}

\* What the wrapped asyncOperation can settle with: a value, an Error
\* instance, or a thrown value that is no Error (a string, a plain object).
WorkResults == {"ok_result"}
WorkErrors ==
    { [isError |-> TRUE, ctor |-> "TypeError", message |-> "fetch failed"],
      [isError |-> FALSE, ctor |-> "", message |-> "not an Error"] }
NoError == [isError |-> FALSE, ctor |-> "", message |-> ""]

Settlements ==
    [ok : {TRUE}, value : WorkResults, error : {NoError}]
        \cup [ok : {FALSE}, value : {""}, error : WorkErrors]

\* Faulty variant: each series keeps its newest entry only
PruneSeries_newest(s) == IF Len(s) > 1 THEN SliceTail(s, 1) ELSE s
\* pruneMetrics: each series keeps its last 1000 entries
PruneSeries(s) == IF Len(s) > MaxMetrics THEN SliceTail(s, MaxMetrics) ELSE s

\* pruneMetrics, called after an append that left the three series as given
pruneMetrics(perf, behavior, health) ==
    /\ performanceMetrics' = PruneSeries(perf)
    /\ userBehaviorMetrics' = PruneSeries(behavior)
    /\ systemHealthMetrics' = PruneSeries(health)

NoSettlement == [ok |-> TRUE, value |-> "", error |-> NoError]

\* logChangeWithPerformance up to its first await: asyncOperation() is called
TrackOperationStart(operation, changeParams, mem) ==
    /\ calls' = Append(calls,
          [ pc |-> "awaitOperation", operation |-> operation, changeParams |-> changeParams,
            operationId |-> Fresh("op"), startTime |-> now, startMemory |-> mem,
            settlement |-> NoSettlement, success |-> TRUE, errorType |-> "",
            outcome |-> "pending", returned |-> "", thrown |-> NoError ])
    /\ nextId' = TakeIds("op", 1)
    /\ UNCHANGED <<now, store, lastCall, loggerVars, engineVars>>

\* error instanceof Error ? error.constructor.name : "UnknownError"
ErrorTypeOf(error) == IF error.isError THEN error.ctor ELSE "UnknownError"
\* error instanceof Error ? error.message : "Unknown error"
ErrorDetailsOf(error) == IF error.isError THEN error.message ELSE "Unknown error"

\* Faulty variant: the catch block logs the parameters as they came
ParamsLogged_plain(changeParams, settlement) == changeParams
\* The parameters handed to logChange in the try block and in the catch block
ParamsLogged(changeParams, settlement) ==
    IF settlement.ok THEN changeParams
    ELSE [changeParams EXCEPT !.type = "SYSTEM", !.errorDetails = ErrorDetailsOf(settlement.error)]

\* The awaited operation settles; the continuation calls logChange (which runs
\* to its end without suspending) and awaits the promise it returns.
TrackOperationSettles(c, settlement, writeOk) ==
    /\ c \in 1..Len(calls)
    /\ calls[c].pc = "awaitOperation"
    /\ store' = LogChangeTry(ParamsLogged(calls[c].changeParams, settlement),
                              Fresh("change"), writeOk).store
    /\ nextId' = TakeIds("change", 1)
    /\ calls' = [calls EXCEPT ![c] =
          [@ EXCEPT !.pc = "awaitLogChange",
                    !.settlement = settlement,
                    !.success = settlement.ok,
                    !.errorType = IF settlement.ok THEN "" ELSE ErrorTypeOf(settlement.error)]]
    /\ UNCHANGED <<now, lastCall, loggerVars, engineVars>>

\* changeParams.affectedCount || changeParams.guests?.length || 1 (guests are not modelled)
ResourcesAffected(changeParams) ==
    IF changeParams.affectedCount # 0 THEN changeParams.affectedCount ELSE 1

\* The sample built in the finally block
PerformanceSample(call, endTime, endMemory) ==
    [ operationId |-> call.operationId,
      operation |-> call.operation,
      startTime |-> call.startTime,
      endTime |-> endTime,
      duration |-> endTime - call.startTime,
      success |-> call.success,
      errorType |-> call.errorType,
      resourcesAffected |-> ResourcesAffected(call.changeParams),
      memoryUsage |-> endMemory - call.startMemory ]

\* Faulty variant: a failed call returns as if it had succeeded
CallSettled_swallow(call) ==
    [call EXCEPT !.pc = "settled", !.outcome = "returned",
                 !.returned = IF call.success THEN call.settlement.value ELSE ""]
\* How the call ends for its caller: `throw error` in the catch block, or
\* `return result!` after the finally block
CallSettled(call) ==
    IF call.success
    THEN [call EXCEPT !.pc = "settled", !.outcome = "returned", !.returned = call.settlement.value]
    ELSE [call EXCEPT !.pc = "settled", !.outcome = "threw", !.thrown = call.settlement.error]

\* logChange's promise has resolved: the finally block records the sample and
\* the call settles towards its caller.
TrackOperationFinish(c, mem) ==
    /\ c \in 1..Len(calls)
    /\ calls[c].pc = "awaitLogChange"
    /\ pruneMetrics(Append(performanceMetrics, PerformanceSample(calls[c], now, mem)),
                    userBehaviorMetrics, systemHealthMetrics)
    /\ calls' = [calls EXCEPT ![c] = CallSettled(@)]
    /\ UNCHANGED <<now, nextId, store, lastCall, clickPath, engineVars>>

MaxClickPath == 10
Hour == 60 * 60 * 1000
Minute == 60 * 1000

\* The document click listener: the trail keeps the last 10 element descriptors
Click(element) ==
    /\ clickPath' = (IF Len(clickPath) + 1 > MaxClickPath
                     THEN Tail(Append(clickPath, element))
                     ELSE Append(clickPath, element))
    /\ UNCHANGED <<now, nextId, store, lastCall, performanceMetrics, userBehaviorMetrics,
                   systemHealthMetrics, calls, engineVars>>

\* The one session id generated when the logger is constructed
currentSession == "session_1"

\* trackUserBehavior(action, context); deviceInfo is not modelled
trackUserBehavior(action, error) ==
    /\ pruneMetrics(performanceMetrics,
                    Append(userBehaviorMetrics,
                       [ sessionId |-> currentSession, timestamp |-> DateNow, action |-> action,
                         clickPath |-> clickPath, errorEncountered |-> error ]),
                    systemHealthMetrics)
    /\ lastCall' = Called("trackUserBehavior", 0, "returned", TRUE)
    /\ UNCHANGED <<now, nextId, store, clickPath, calls, engineVars>>

RECURSIVE SumDurations(_)
SumDurations(s) ==
    IF s = <<>> THEN 0
    ELSE IF Len(s) = 1 THEN s[1].duration
    ELSE LET half == Len(s) \div 2
         IN SumDurations(SubSeq(s, 1, half)) + SumDurations(SubSeq(s, half + 1, Len(s)))

\* getAverageResponseTime: mean duration of the last 10 samples
getAverageResponseTime ==
    LET recentMetrics == SliceTail(performanceMetrics, 10) IN
    IF Len(recentMetrics) = 0 THEN Rat(0, 1)
    ELSE Rat(SumDurations(recentMetrics), Len(recentMetrics))

\* Faulty variant: the whole history counts as recent
getRecentChanges_all(minutes) == getChangeHistory
\* getRecentChanges(minutes): entries with timestamp > Date.now() - minutes * 60 * 1000
getRecentChanges(minutes) ==
    SelectSeq(getChangeHistory, LAMBDA entry : entry.timestamp > DateNow - minutes * Minute)

\* The snapshot recordSystemHealth builds (cacheHitRate, a random number that
\* nothing reads, is left out)
HealthSnapshot(mem) ==
    LET recentChanges == getRecentChanges(1)
        recentErrors == SelectSeq(recentChanges, LAMBDA c : c.action_type = "SYSTEM")
    IN [ timestamp |-> DateNow,
         memoryUsage |-> mem,
         activeUsers |-> 1,
         operationsPerMinute |-> Len(recentChanges),
         errorRate |-> (IF Len(recentChanges) > 0
                        THEN Rat(Len(recentErrors) * 100, Len(recentChanges))
                        ELSE Rat(0, 1)),
         averageResponseTime |-> getAverageResponseTime,
         databaseConnections |-> 1 ]

\* One tick of the 30 s health timer (a timer callback has no caller)
recordSystemHealth(mem) ==
    /\ pruneMetrics(performanceMetrics, userBehaviorMetrics,
                    Append(systemHealthMetrics, HealthSnapshot(mem)))
    /\ UNCHANGED <<now, lastCall, nextId, store, clickPath, calls, engineVars>>

----------------------------------------------------------------------------
(* advanced-change-logger: the aggregation getters *)

RatLess(a, b) == a.n * b.d < b.n * a.d

\* s without repeated elements, in order of first occurrence (the key order of
\* a JavaScript object with string keys)
RECURSIVE Distinct(_)
Distinct(s) ==
    IF Len(s) <= 1 THEN s
    ELSE LET half == Len(s) \div 2
             r == Distinct(SubSeq(s, 1, half))
             t == Distinct(SubSeq(s, half + 1, Len(s)))
         IN r \o SelectSeq(t, LAMBDA x : \A i \in 1..Len(r) : r[i] # x)

Occurrences(s, k) == Cardinality({i \in 1..Len(s) : s[i] = k})

\* Object.entries of a tally keyed by the elements of s
Tally(s) ==
    LET d == Distinct(s) IN [i \in 1..Len(d) |-> [key |-> d[i], count |-> Occurrences(s, d[i])]]

\* .sort(([, a], [, b]) => b - a): descending by count, stable
RECURSIVE SortByCountDesc(_)
SortByCountDesc(s) ==
    IF s = <<>> THEN <<>>
    ELSE LET r == SortByCountDesc(SubSeq(s, 1, Len(s) - 1))
             x == s[Len(s)]
             k == Cardinality({i \in 1..Len(r) : r[i].count >= x.count})
         IN SubSeq(r, 1, k) \o <<x>> \o SubSeq(r, k + 1, Len(r))

\* Object.entries of a tally keyed by integers: ascending key order
RECURSIVE SortByKeyAsc(_)
SortByKeyAsc(s) ==
    IF s = <<>> THEN <<>>
    ELSE LET r == SortByKeyAsc(SubSeq(s, 1, Len(s) - 1))
             x == s[Len(s)]
             k == Cardinality({i \in 1..Len(r) : r[i].key <= x.key})
         IN SubSeq(r, 1, k) \o <<x>> \o SubSeq(r, k + 1, Len(r))

RECURSIVE SumCounts(_)
SumCounts(s) == IF s = <<>> THEN 0 ELSE s[1].count + SumCounts(Tail(s))

MapSeq(s, F(_)) == [i \in 1..Len(s) |-> F(s[i])]

\* new Date(timestamp).getHours(), the browser being on UTC
HourOfDay(timestamp) == (timestamp \div Hour) % 24
\* new Date(t).toISOString().slice(0, 13): the hour bucket of an instant
HourBucket(t) == t \div Hour

getErrorPatterns ==
    LET errors == SelectSeq(performanceMetrics, LAMBDA m : ~m.success) IN
    SliceHead(SortByCountDesc(Tally(MapSeq(errors, LAMBDA e : <<e.operation, e.errorType>>))), 10)

getOperationFrequency ==
    SortByCountDesc(Tally(MapSeq(performanceMetrics, LAMBDA m : m.operation)))

\* getPerformanceTrends: the samples of the last 24 hours by hour bucket.  The
\* code subtracts startTime, a performance.now() reading, from Date.now().
getPerformanceTrends ==
    LET recent == SelectSeq(performanceMetrics, LAMBDA m : DateNow - m.startTime < Day)
        hours == Distinct(MapSeq(recent, LAMBDA m : HourBucket(m.startTime)))
        Bucket(h) == SelectSeq(recent, LAMBDA m : HourBucket(m.startTime) = h)
    IN MapSeq(hours, LAMBDA h :
          [ hour |-> h,
            averageDuration |-> Rat(SumDurations(Bucket(h)), Len(Bucket(h))),
            operationCount |-> Len(Bucket(h)),
            errorRate |-> Rat(Len(SelectSeq(Bucket(h), LAMBDA m : ~m.success)) * 100,
                              Len(Bucket(h))) ])

getPerformanceAnalytics ==
    LET metrics == performanceMetrics IN
    [ totalOperations |-> Len(metrics),
      successRate |-> (IF Len(metrics) > 0
                       THEN Rat(Len(SelectSeq(metrics, LAMBDA m : m.success)) * 100, Len(metrics))
                       ELSE Rat(0, 1)),
      averageDuration |-> (IF Len(metrics) > 0 THEN Rat(SumDurations(metrics), Len(metrics))
                           ELSE Rat(0, 1)),
      errorPatterns |-> getErrorPatterns,
      operationFrequency |-> getOperationFrequency,
      performanceTrends |-> getPerformanceTrends ]

getMostCommonActions ==
    SliceHead(SortByCountDesc(Tally(MapSeq(userBehaviorMetrics, LAMBDA b : b.action))), 10)

\* keyed by clickPath.slice(-3).join(" -> ")
getErrorPronePaths ==
    LET errorBehaviors == SelectSeq(userBehaviorMetrics, LAMBDA b : b.errorEncountered) IN
    SliceHead(SortByCountDesc(Tally(MapSeq(errorBehaviors, LAMBDA b : SliceTail(b.clickPath, 3)))), 5)

getPeakUsageTimes ==
    LET byHour == SortByKeyAsc(Tally(MapSeq(userBehaviorMetrics, LAMBDA b : HourOfDay(b.timestamp))))
    IN MapSeq(SliceHead(SortByCountDesc(byHour), 5), LAMBDA e : [hour |-> e.key, count |-> e.count])

getUserBehaviorAnalytics ==
    [ totalSessions |-> Cardinality({userBehaviorMetrics[i].sessionId :
                                        i \in 1..Len(userBehaviorMetrics)}),
      mostCommonActions |-> getMostCommonActions,
      errorPronePaths |-> getErrorPronePaths,
      peakUsageTimes |-> getPeakUsageTimes ]

getResourceUsageTrends ==
    MapSeq(SliceTail(systemHealthMetrics, 24), LAMBDA metric :
        [ timestamp |-> metric.timestamp,
          memoryUsage |-> metric.memoryUsage,
          operationsPerMinute |-> metric.operationsPerMinute,
          errorRate |-> metric.errorRate,
          responseTime |-> metric.averageResponseTime ])

\* An aggregator output that is null or undefined: if (!performanceData) return
Null == [missing |-> TRUE]

\* Sum and product of fractions, for the score
RatAdd(a, b) == Rat(a.n * b.d + b.n * a.d, a.d * b.d)
RatNeg(a) == Rat(0 - a.n, a.d)
RatInt(k) == Rat(k, 1)

\* Faulty variant: the score is not clamped
calculatePerformanceScore_unclamped ==
    IF systemHealthMetrics = <<>> THEN RatInt(100)
    ELSE LET current == systemHealthMetrics[Len(systemHealthMetrics)]
             s1 == RatAdd(RatInt(100), RatNeg(Rat(current.errorRate.n * 2, current.errorRate.d)))
             s2 == IF RatGT(current.averageResponseTime, 500)
                   THEN RatAdd(s1, RatNeg(Rat(current.averageResponseTime.n
                                              - 500 * current.averageResponseTime.d,
                                              current.averageResponseTime.d * 10)))
                   ELSE s1
         IN IF current.memoryUsage > 50
            THEN RatAdd(s2, RatNeg(Rat(current.memoryUsage - 50, 2)))
            ELSE s2
\* calculatePerformanceScore, 100 when no snapshot has been recorded
calculatePerformanceScore ==
    IF systemHealthMetrics = <<>> THEN RatInt(100)
    ELSE LET current == systemHealthMetrics[Len(systemHealthMetrics)]
             s1 == RatAdd(RatInt(100), RatNeg(Rat(current.errorRate.n * 2, current.errorRate.d)))
             s2 == IF RatGT(current.averageResponseTime, 500)
                   THEN RatAdd(s1, RatNeg(Rat(current.averageResponseTime.n
                                              - 500 * current.averageResponseTime.d,
                                              current.averageResponseTime.d * 10)))
                   ELSE s1
             s3 == IF current.memoryUsage > 50
                   THEN RatAdd(s2, RatNeg(Rat(current.memoryUsage - 50, 2)))
                   ELSE s2
         IN IF RatLT(s3, 0) THEN RatInt(0) ELSE IF RatGT(s3, 100) THEN RatInt(100) ELSE s3

\* getSystemHealthAnalytics; hasCurrent is FALSE when currentHealth is undefined
getSystemHealthAnalytics ==
    [ hasCurrent |-> systemHealthMetrics # <<>>,
      currentHealth |-> (IF systemHealthMetrics # <<>>
                         THEN systemHealthMetrics[Len(systemHealthMetrics)]
                         ELSE [memoryUsage |-> 0, errorRate |-> Rat(0, 1)]),
      resourceUsage |-> getResourceUsageTrends,
      performanceScore |-> calculatePerformanceScore ]

----------------------------------------------------------------------------
(* ai-analytics-engine: helpers and the three collections *)

MaxAnomalies == 100
MaxInsights == 50
MaxRecommendations == 30

\* Faulty variant: the decreases are subtracted from the increases
calculateTrendDirection_net(values) ==
    IF Len(values) < 2 THEN Rat(0, 1)
    ELSE Rat((Cardinality({i \in 2..Len(values) : RatLess(values[i - 1], values[i])})
                - Cardinality({i \in 2..Len(values) : RatLess(values[i], values[i - 1])})) * 100,
             Len(values) - 1)
\* Faulty variant: a value equal to its predecessor counts as an increase
calculateTrendDirection_equal(values) ==
    IF Len(values) < 2 THEN Rat(0, 1)
    ELSE Rat(Cardinality({i \in 2..Len(values) : ~RatLess(values[i], values[i - 1])}) * 100,
             Len(values) - 1)
\* calculateTrendDirection: percentage of positions that increase
calculateTrendDirection(values) ==
    IF Len(values) < 2 THEN Rat(0, 1)
    ELSE Rat(Cardinality({i \in 2..Len(values) : RatLess(values[i - 1], values[i])}) * 100,
             Len(values) - 1)

\* Faulty variant: a payload that is missing costs its full penalty
calculateSystemScore_penalised(performanceData, behaviorData, healthData) ==
    LET hasPerformance == performanceData # Null
        hasBehavior == behaviorData # Null
        \* healthData?.currentHealth
        hasHealth == healthData # Null /\ healthData.hasCurrent
        p1 == IF ~hasPerformance \/ RatGT(performanceData.averageDuration, 1000) THEN 20 ELSE 0
        p2 == IF ~hasPerformance \/ RatLT(performanceData.successRate, 95) THEN 15 ELSE 0
        p3 == IF ~hasPerformance \/ Len(performanceData.errorPatterns) > 3 THEN 10 ELSE 0
        b1 == IF ~hasBehavior \/ Len(behaviorData.errorPronePaths) > 2 THEN 15 ELSE 0
        h1 == IF ~hasHealth \/ RatGT(healthData.currentHealth.errorRate, 5) THEN 20 ELSE 0
        h2 == IF ~hasHealth \/ healthData.currentHealth.memoryUsage > 80 THEN 10 ELSE 0
    IN Max(0, 100 - p1 - p2 - p3 - b1 - h1 - h2)
calculateSystemScore(performanceData, behaviorData, healthData) ==
    LET hasPerformance == performanceData # Null
        hasBehavior == behaviorData # Null
        \* healthData?.currentHealth
        hasHealth == healthData # Null /\ healthData.hasCurrent
        p1 == IF hasPerformance /\ RatGT(performanceData.averageDuration, 1000) THEN 20 ELSE 0
        p2 == IF hasPerformance /\ RatLT(performanceData.successRate, 95) THEN 15 ELSE 0
        p3 == IF hasPerformance /\ Len(performanceData.errorPatterns) > 3 THEN 10 ELSE 0
        b1 == IF hasBehavior /\ Len(behaviorData.errorPronePaths) > 2 THEN 15 ELSE 0
        h1 == IF hasHealth /\ RatGT(healthData.currentHealth.errorRate, 5) THEN 20 ELSE 0
        h2 == IF hasHealth /\ healthData.currentHealth.memoryUsage > 80 THEN 10 ELSE 0
    IN Max(0, 100 - p1 - p2 - p3 - b1 - h1 - h2)

\* An undefined timestamp (resolvedAt, implementedAt)
Undefined == 0
\* An absent actualImpact, and the impacts a caller can pass
NoImpact == [given |-> FALSE, success |-> FALSE]
Impacts == {NoImpact, [given |-> TRUE, success |-> TRUE]}

\* Faulty variant: keeps the first 100 entries
pruneAnomalies_head(items) ==
    IF Len(items) > MaxAnomalies THEN SliceHead(items, MaxAnomalies) ELSE items
pruneAnomalies(items) ==
    IF Len(items) > MaxAnomalies THEN SliceTail(items, MaxAnomalies) ELSE items
pruneInsights(items) ==
    IF Len(items) > MaxInsights THEN SliceTail(items, MaxInsights) ELSE items
pruneRecommendations(items) ==
    IF Len(items) > MaxRecommendations THEN SliceTail(items, MaxRecommendations) ELSE items

\* Faulty variant: a resolved anomaly of the pair counts as well
ExistingAnomaly_any(items, data) ==
    \E i \in 1..Len(items) : items[i].type = data.type /\ items[i].title = data.title
\* Faulty variant: looks among the resolved anomalies
ExistingAnomaly_resolved(items, data) ==
    \E i \in 1..Len(items) :
        items[i].type = data.type /\ items[i].title = data.title /\ items[i].autoResolved
\* Whether addAnomaly finds a similar anomaly
ExistingAnomaly(items, data) ==
    \E i \in 1..Len(items) :
        items[i].type = data.type /\ items[i].title = data.title /\ ~items[i].autoResolved

\* Faulty variant: a similar resolved anomaly is reopened instead of a new one
\* being pushed
addAnomaly_reopen(st, data) ==
    LET anomaly == [ id |-> st.next, detectedAt |-> DateNow, autoResolved |-> FALSE,
                     resolvedAt |-> Undefined,
                     type |-> data.type, title |-> data.title, severity |-> data.severity,
                     baseline |-> data.baseline, current |-> data.current ]
        similar(i) == st.items[i].type = data.type /\ st.items[i].title = data.title
    IN IF ExistingAnomaly(st.items, data) THEN st
       ELSE IF \E i \in 1..Len(st.items) : similar(i)
       THEN [st EXCEPT !.items = [ i \in 1..Len(st.items) |->
                                     IF similar(i)
                                     THEN [st.items[i] EXCEPT !.autoResolved = FALSE]
                                     ELSE st.items[i] ]]
       ELSE [items |-> pruneAnomalies(Append(st.items, anomaly)), next |-> st.next + 1]
\* addAnomaly on a collection st.items, st.next being the next fresh id
addAnomaly(st, data) ==
    LET anomaly == [ id |-> st.next, detectedAt |-> DateNow, autoResolved |-> FALSE,
                     resolvedAt |-> Undefined,
                     type |-> data.type, title |-> data.title, severity |-> data.severity,
                     baseline |-> data.baseline, current |-> data.current ]
    IN IF ExistingAnomaly(st.items, data) THEN st
       ELSE [items |-> pruneAnomalies(Append(st.items, anomaly)), next |-> st.next + 1]

\* Faulty variant: looks only among the insights created at this instant
ExistingInsight_live(items, data) ==
    \E i \in 1..Len(items) :
        items[i].type = data.type /\ items[i].title = data.title /\ items[i].createdAt = DateNow
ExistingInsight(items, data) ==
    \E i \in 1..Len(items) : items[i].type = data.type /\ items[i].title = data.title

addInsight(st, data) ==
    LET insight == [ id |-> st.next, createdAt |-> DateNow, expiresAt |-> DateNow + Day,
                     type |-> data.type, title |-> data.title, severity |-> data.severity ]
    IN IF ExistingInsight(st.items, data) THEN st
       ELSE [items |-> pruneInsights(Append(st.items, insight)), next |-> st.next + 1]

\* Faulty variant: compares the category with the title
ExistingRecommendation_title(items, data) ==
    \E i \in 1..Len(items) :
        items[i].category = data.title /\ items[i].title = data.title /\ ~items[i].implemented
ExistingRecommendation(items, data) ==
    \E i \in 1..Len(items) :
        items[i].category = data.category /\ items[i].title = data.title /\ ~items[i].implemented

addRecommendation(st, data) ==
    LET recommendation == [ id |-> st.next, createdAt |-> DateNow, validUntil |-> DateNow + Week,
                            implemented |-> FALSE, implementedAt |-> Undefined,
                            actualImpact |-> NoImpact,
                            category |-> data.category, title |-> data.title,
                            priority |-> data.priority ]
    IN IF ExistingRecommendation(st.items, data) THEN st
       ELSE [items |-> pruneRecommendations(Append(st.items, recommendation)),
             next |-> st.next + 1]

\* The add calls of one synchronous run, in order
RECURSIVE AddAnomalies(_, _)
AddAnomalies(st, datas) ==
    IF datas = <<>> THEN st ELSE AddAnomalies(addAnomaly(st, Head(datas)), Tail(datas))
RECURSIVE AddInsights(_, _)
AddInsights(st, datas) ==
    IF datas = <<>> THEN st ELSE AddInsights(addInsight(st, Head(datas)), Tail(datas))
RECURSIVE AddRecommendations(_, _)
AddRecommendations(st, datas) ==
    IF datas = <<>> THEN st
    ELSE AddRecommendations(addRecommendation(st, Head(datas)), Tail(datas))

\* Faulty variant: the age alone decides, resolved or not
cleanupOldAnomalies_age(items) ==
    LET cutoff == DateNow - Day IN
    SelectSeq(items, LAMBDA anomaly : anomaly.detectedAt > cutoff)
cleanupOldAnomalies(items) ==
    LET cutoff == DateNow - Day IN
    SelectSeq(items, LAMBDA anomaly : anomaly.detectedAt > cutoff \/ ~anomaly.autoResolved)

\* Faulty variant: an insight is kept for a day past its expiry
cleanupOldInsights_grace(items) ==
    SelectSeq(items, LAMBDA insight : insight.expiresAt + Day > DateNow)
cleanupOldInsights(items) == SelectSeq(items, LAMBDA insight : insight.expiresAt > DateNow)

\* Faulty variant: an implemented recommendation is kept whatever its age
cleanupOldRecommendations_pending(items) ==
    SelectSeq(items, LAMBDA rec : rec.validUntil > DateNow \/ rec.implemented)
cleanupOldRecommendations(items) == SelectSeq(items, LAMBDA rec : rec.validUntil > DateNow)

\* A rule's output when its condition holds
When(cond, data) == IF cond THEN <<data>> ELSE <<>>

----------------------------------------------------------------------------
(* ai-analytics-engine: the anomaly rules *)

AnomalyData(type, severity, title, baseline, current) ==
    [type |-> type, severity |-> severity, title |-> title, baseline |-> baseline,
     current |-> current]

\* Faulty variant: an average of exactly 2000 ms counts as a spike
detectPerformanceAnomalies_from2000(performanceData) ==
    IF performanceData = Null THEN <<>> ELSE
    LET averageDuration == performanceData.averageDuration
        errorPatterns == performanceData.errorPatterns
        performanceTrends == performanceData.performanceTrends
        totalErrors == SumCounts(errorPatterns)
        trendDirection ==
            calculateTrendDirection(MapSeq(SliceTail(performanceTrends, 5),
                                           LAMBDA t : t.averageDuration))
    IN When(~RatLT(averageDuration, 2000),
            AnomalyData("performance_spike",
                        IF RatGT(averageDuration, 5000) THEN "critical" ELSE "high",
                        "Performance Degradation Detected", RatInt(800), averageDuration))
       \o When(Len(errorPatterns) > 0 /\ totalErrors > 10,
            AnomalyData("error_burst", IF totalErrors > 50 THEN "critical" ELSE "high",
                        "Error Rate Spike Detected", RatInt(2), RatInt(totalErrors)))
       \o When(Len(performanceTrends) > 5 /\ RatGT(trendDirection, 50),
            AnomalyData("unusual_pattern", "medium", "Performance Degradation Trend",
                        RatInt(0), trendDirection))
detectPerformanceAnomalies(performanceData) ==
    IF performanceData = Null THEN <<>> ELSE
    LET averageDuration == performanceData.averageDuration
        errorPatterns == performanceData.errorPatterns
        performanceTrends == performanceData.performanceTrends
        totalErrors == SumCounts(errorPatterns)
        trendDirection ==
            calculateTrendDirection(MapSeq(SliceTail(performanceTrends, 5),
                                           LAMBDA t : t.averageDuration))
    IN When(RatGT(averageDuration, 2000),
            AnomalyData("performance_spike",
                        IF RatGT(averageDuration, 5000) THEN "critical" ELSE "high",
                        "Performance Degradation Detected", RatInt(800), averageDuration))
       \o When(Len(errorPatterns) > 0 /\ totalErrors > 10,
            AnomalyData("error_burst", IF totalErrors > 50 THEN "critical" ELSE "high",
                        "Error Rate Spike Detected", RatInt(2), RatInt(totalErrors)))
       \o When(Len(performanceTrends) > 5 /\ RatGT(trendDirection, 50),
            AnomalyData("unusual_pattern", "medium", "Performance Degradation Trend",
                        RatInt(0), trendDirection))

detectBehaviorAnomalies(behaviorData) ==
    IF behaviorData = Null THEN <<>> ELSE
    LET errorPronePaths == behaviorData.errorPronePaths
        peakUsageTimes == behaviorData.peakUsageTimes
        unusualPeaks == SelectSeq(peakUsageTimes, LAMBDA peak : peak.hour < 6 \/ peak.hour > 22)
    IN When(Len(errorPronePaths) > 3,
            AnomalyData("user_behavior_anomaly", "medium",
                        "Multiple Error-Prone User Paths Detected",
                        RatInt(1), RatInt(Len(errorPronePaths))))
       \o When(Len(peakUsageTimes) > 0 /\ Len(unusualPeaks) > 0,
            AnomalyData("unusual_pattern", "low", "Unusual Peak Usage Times",
                        RatInt(5), RatInt(SumCounts(unusualPeaks))))

detectSystemHealthAnomalies(healthData) ==
    IF healthData = Null \/ ~healthData.hasCurrent THEN <<>>
    ELSE
    LET currentHealth == healthData.currentHealth
        resourceUsage == healthData.resourceUsage
        memoryTrend ==
            calculateTrendDirection(MapSeq(SliceTail(resourceUsage, 5),
                                           LAMBDA r : RatInt(r.memoryUsage)))
    IN When(currentHealth.memoryUsage > 80,
            AnomalyData("capacity_issue",
                        IF currentHealth.memoryUsage > 95 THEN "critical" ELSE "high",
                        "High Memory Usage Detected", RatInt(50),
                        RatInt(currentHealth.memoryUsage)))
       \o When(RatGT(currentHealth.errorRate, 5),
            AnomalyData("error_burst",
                        IF RatGT(currentHealth.errorRate, 15) THEN "critical" ELSE "high",
                        "Elevated System Error Rate", RatInt(1), currentHealth.errorRate))
       \o When(Len(resourceUsage) > 5 /\ RatGT(memoryTrend, 30),
            AnomalyData("capacity_issue", "medium", "Memory Usage Trending Upward",
                        RatInt(0), memoryTrend))

\* runAnomalyDetection on the three payloads: the three detect steps, then the clean-up
AnomaliesDetected(st, performanceData, behaviorData, healthData) ==
    LET added == AddAnomalies(st,
                    detectPerformanceAnomalies(performanceData)
                    \o detectBehaviorAnomalies(behaviorData)
                    \o detectSystemHealthAnomalies(healthData))
    IN [added EXCEPT !.items = cleanupOldAnomalies(@)]

\* The anomalies after runAnomalyDetection
AnomaliesAfterDetection(st) ==
    AnomaliesDetected(st, getPerformanceAnalytics, getUserBehaviorAnalytics,
                      getSystemHealthAnalytics)

----------------------------------------------------------------------------
(* ai-analytics-engine: the insight rules *)

InsightData(type, severity, title) == [type |-> type, severity |-> severity, title |-> title]

generatePerformancePredictions(performanceData, changeHistory) ==
    IF performanceData = Null THEN <<>> ELSE
    LET performanceTrends == performanceData.performanceTrends
        totalOperations == performanceData.totalOperations
        trend == calculateTrendDirection(MapSeq(SliceTail(performanceTrends, 3),
                                                LAMBDA t : t.averageDuration))
        recentOperations ==
            Len(SelectSeq(changeHistory, LAMBDA entry : entry.timestamp > DateNow - Day))
    IN When(Len(performanceTrends) > 3 /\ RatGT(trend, 20),
            InsightData("performance", "medium", "Performance Degradation Predicted"))
       \* recentOperations > totalOperations * 1.5
       \o When(2 * recentOperations > 3 * totalOperations,
            InsightData("performance", "high", "Increased Load Predicted"))

generateBehaviorPredictions(behaviorData) ==
    IF behaviorData = Null THEN <<>> ELSE
    When(Len(behaviorData.peakUsageTimes) > 0,
         InsightData("behavior", "low", "Peak Usage Period Predicted"))
    \o When(Len(behaviorData.errorPronePaths) > 0,
         InsightData("behavior", "medium", "User Error Patterns Identified"))

generateSystemHealthPredictions(healthData) ==
    IF healthData = Null THEN <<>> ELSE
    LET resourceUsage == healthData.resourceUsage
        memoryTrend == calculateTrendDirection(MapSeq(SliceTail(resourceUsage, 5),
                                                      LAMBDA r : RatInt(r.memoryUsage)))
        errorTrend == calculateTrendDirection(MapSeq(SliceTail(resourceUsage, 5),
                                                     LAMBDA r : r.errorRate))
    IN When(Len(resourceUsage) > 5 /\ (RatGT(memoryTrend, 15) \/ RatGT(errorTrend, 10)),
            InsightData("system",
                        IF RatGT(memoryTrend, 30) \/ RatGT(errorTrend, 20) THEN "high" ELSE "medium",
                        "System Health Degradation Predicted"))

generateOptimizationInsights(performanceData, behaviorData, healthData) ==
    LET systemScore == calculateSystemScore(performanceData, behaviorData, healthData) IN
    When(systemScore < 80,
         InsightData("optimization", IF systemScore < 60 THEN "high" ELSE "medium",
                     "System Optimization Opportunities Identified"))

\* generatePredictiveInsights on the three payloads: the four generators, then
\* the clean-up
InsightsGenerated(st, performanceData, behaviorData, healthData) ==
    LET added == AddInsights(st,
                    generatePerformancePredictions(performanceData, getChangeHistory)
                    \o generateBehaviorPredictions(behaviorData)
                    \o generateSystemHealthPredictions(healthData)
                    \o generateOptimizationInsights(performanceData, behaviorData, healthData))
    IN [added EXCEPT !.items = cleanupOldInsights(@)]

\* The insights after generatePredictiveInsights
InsightsAfterGeneration(st) ==
    InsightsGenerated(st, getPerformanceAnalytics, getUserBehaviorAnalytics,
                      getSystemHealthAnalytics)

----------------------------------------------------------------------------
(* ai-analytics-engine: the recommendation rules *)

RecommendationData(category, priority, title) ==
    [category |-> category, priority |-> priority, title |-> title]

CountOps(entries, ops) == Len(SelectSeq(entries, LAMBDA entry : entry.operation \in ops))

generateTableAssignmentRecommendations(changeHistory) ==
    LET tableOperations ==
            SelectSeq(changeHistory, LAMBDA entry :
                entry.operation \in {"ASSIGN_TABLE", "REMOVE_FROM_TABLE", "AUTO_ASSIGN_TABLES"})
        recentTableOps == SelectSeq(tableOperations, LAMBDA entry : entry.timestamp > DateNow - Day)
        \* the clear operations are looked for among tableOperations
        clearOperations == SelectSeq(tableOperations,
                                     LAMBDA entry : entry.operation = "CLEAR_ALL_ASSIGNMENTS")
    IN When(Len(recentTableOps) > 20,
            RecommendationData("table_assignment", "medium", "Optimize Table Assignment Strategy"))
       \o When(Len(clearOperations) > 2,
            RecommendationData("table_assignment", "high", "Reduce Need for Assignment Resets"))

generateSystemOptimizationRecommendations(performanceData) ==
    IF performanceData = Null THEN <<>> ELSE
    When(RatGT(performanceData.averageDuration, 1000),
         RecommendationData("performance", "high", "Optimize System Response Times"))
    \o When(Len(performanceData.errorPatterns) > 5,
         RecommendationData("system_optimization", "medium", "Improve Error Handling and Recovery"))

generateUserExperienceRecommendations(behaviorData) ==
    IF behaviorData = Null THEN <<>> ELSE
    LET mostCommonActions == behaviorData.mostCommonActions IN
    When(Len(behaviorData.errorPronePaths) > 2,
         RecommendationData("user_experience", "high", "Improve User Interface Design"))
    \o When(Len(mostCommonActions) > 0 /\ mostCommonActions[1].count > 100,
         RecommendationData("user_experience", "medium", "Optimize Most Common User Workflows"))

\* Faulty variant: one session is enough
generateCapacityPlanningRecommendations_anySession(performanceData, behaviorData) ==
    IF performanceData = Null \/ behaviorData = Null THEN <<>> ELSE
    When(performanceData.totalOperations > 1000 \/ behaviorData.totalSessions > 0,
         RecommendationData("capacity_planning", "medium", "Plan for Increased System Capacity"))
generateCapacityPlanningRecommendations(performanceData, behaviorData) ==
    IF performanceData = Null \/ behaviorData = Null THEN <<>> ELSE
    When(performanceData.totalOperations > 1000 \/ behaviorData.totalSessions > 50,
         RecommendationData("capacity_planning", "medium", "Plan for Increased System Capacity"))

\* updateRecommendations on the two payloads: the four generators, then the clean-up
RecommendationsUpdated(st, performanceData, behaviorData) ==
    LET added == AddRecommendations(st,
                    generateTableAssignmentRecommendations(getChangeHistory)
                    \o generateSystemOptimizationRecommendations(performanceData)
                    \o generateUserExperienceRecommendations(behaviorData)
                    \o generateCapacityPlanningRecommendations(performanceData, behaviorData))
    IN [added EXCEPT !.items = cleanupOldRecommendations(@)]

\* The recommendations after updateRecommendations
RecommendationsAfterUpdate(st) ==
    RecommendationsUpdated(st, getPerformanceAnalytics, getUserBehaviorAnalytics)

----------------------------------------------------------------------------
(* ai-analytics-engine: pattern mining and the table-assignment analysis *)

analyzeTemporalPatterns(changeHistory) ==
    LET hourlyPatterns == Tally(MapSeq(changeHistory, LAMBDA entry : HourOfDay(entry.timestamp)))
        \* count > averageHourlyActivity * 2, the average being the total over 24
        unusualHours == SelectSeq(hourlyPatterns,
                                  LAMBDA e : 24 * e.count > 2 * SumCounts(hourlyPatterns))
    IN When(Len(unusualHours) > 0,
            InsightData("behavior", "low", "Unusual Activity Patterns Detected"))

\* `High Frequency Operation: ${operation}`
HighFrequencyTitle(operation) == "High Frequency Operation: " \o operation

analyzeOperationPatterns(changeHistory) ==
    LET operationCounts == Tally(MapSeq(changeHistory, LAMBDA entry : entry.operation))
        totalOperations == SumCounts(operationCounts)
        \* count > totalOperations * 0.3
        dominantOperations == SelectSeq(operationCounts, LAMBDA e : 10 * e.count > 3 * totalOperations)
    IN MapSeq(dominantOperations, LAMBDA e :
          InsightData("optimization", "low", HighFrequencyTitle(e.key)))

analyzeErrorPatterns(changeHistory) ==
    LET errorEntries == SelectSeq(changeHistory, LAMBDA entry : entry.error_details # "")
        errorTypes == Tally(MapSeq(errorEntries, LAMBDA entry : entry.operation))
        recurringErrors == SelectSeq(errorTypes, LAMBDA e : e.count > 2)
    IN When(Len(errorEntries) > 0 /\ Len(recurringErrors) > 0,
            InsightData("system", "medium", "Recurring Error Patterns Identified"))

analyzeUserPatterns(changeHistory) ==
    LET batchOperations == SelectSeq(changeHistory, LAMBDA entry : entry.batch_id # "")
        individualOperations == SelectSeq(changeHistory, LAMBDA entry : entry.batch_id = "")
        total == Len(batchOperations) + Len(individualOperations)
    \* batchRatio < 0.3; on an empty history the ratio is NaN and the test fails
    IN When(total > 0 /\ 10 * Len(batchOperations) < 3 * total,
            InsightData("optimization", "medium", "Low Batch Operation Usage Detected"))

InsightsAfterPatterns(st) ==
    AddInsights(st, analyzeTemporalPatterns(getChangeHistory)
                    \o analyzeOperationPatterns(getChangeHistory)
                    \o analyzeErrorPatterns(getChangeHistory)
                    \o analyzeUserPatterns(getChangeHistory))

optimizeTableAssignments(changeHistory) ==
    LET autoAssignments == CountOps(changeHistory, {"AUTO_ASSIGN_TABLES"})
        manualAdjustments == CountOps(changeHistory, {"ASSIGN_TABLE", "REMOVE_FROM_TABLE"})
        tableAssignments == CountOps(changeHistory, {"ASSIGN_TABLE"})
    \* manualAdjustments.length > autoAssignments.length * 0.5
    IN When(autoAssignments > 0 /\ 2 * manualAdjustments > autoAssignments,
            RecommendationData("table_assignment", "high",
                               "Improve Automatic Table Assignment Algorithm"))
       \o When(tableAssignments > 0,
            RecommendationData("table_assignment", "medium",
                               "Optimize Table Utilization Strategy"))

----------------------------------------------------------------------------
(* ai-analytics-engine: timer callbacks and public methods *)

Coll(items, prefix) == [items |-> items, next |-> Fresh(prefix)]

\* The 60 s timer
runAnomalyDetection ==
    LET r == AnomaliesAfterDetection(Coll(anomalies, "anomaly")) IN
    /\ anomalies' = r.items
    /\ nextId' = [nextId EXCEPT !["anomaly"] = r.next]
    /\ UNCHANGED <<now, lastCall, store, loggerVars, calls, insights, recommendations>>

\* The 300 s timer
generatePredictiveInsights ==
    LET r == InsightsAfterGeneration(Coll(insights, "insight")) IN
    /\ insights' = r.items
    /\ nextId' = [nextId EXCEPT !["insight"] = r.next]
    /\ UNCHANGED <<now, lastCall, store, loggerVars, calls, anomalies, recommendations>>

\* The 600 s timer
updateRecommendations ==
    LET r == RecommendationsAfterUpdate(Coll(recommendations, "rec")) IN
    /\ recommendations' = r.items
    /\ nextId' = [nextId EXCEPT !["rec"] = r.next]
    /\ UNCHANGED <<now, lastCall, store, loggerVars, calls, insights, anomalies>>

\* [...items].sort((a, b) => b.time - a.time) on pairs [time, item]: newest first, stable
\* (a stable sort: the pairs of the latest time in their order, then those of
\* the next time, and so on)
RECURSIVE NewestFirst(_, _)
NewestFirst(pairs, times) ==
    IF times = {} THEN <<>>
    ELSE LET t == CHOOSE a \in times : \A b \in times : b <= a
         IN SelectSeq(pairs, LAMBDA p : p.time = t) \o NewestFirst(pairs, times \ {t})
SortNewestFirst(pairs) == NewestFirst(pairs, {pairs[i].time : i \in 1..Len(pairs)})

Items(pairs) == MapSeq(pairs, LAMBDA p : p.item)

\* Faulty variant: only the newest insight is shown
DashboardInsights_newest(items) ==
    SliceHead(Items(SortNewestFirst(MapSeq(items, LAMBDA i : [time |-> i.createdAt, item |-> i]))), 1)
\* The three lists of getDashboard(), each as a function of its collection
DashboardInsights(items) ==
    Items(SortNewestFirst(MapSeq(items, LAMBDA i : [time |-> i.createdAt, item |-> i])))
DashboardAnomalies(items) ==
    Items(SortNewestFirst(MapSeq(items, LAMBDA a : [time |-> a.detectedAt, item |-> a])))
DashboardRecommendations(items) ==
    Items(SortNewestFirst(MapSeq(items, LAMBDA r : [time |-> r.createdAt, item |-> r])))

\* The recommendations tab: dashboard.recommendations.filter((r) => !r.implemented)
NotImplementedTab(items) == SelectSeq(DashboardRecommendations(items), LAMBDA r : ~r.implemented)
\* The anomalies tab: dashboard.anomalies.filter((a) => !a.autoResolved)
ActiveAnomaliesTab(items) == SelectSeq(DashboardAnomalies(items), LAMBDA a : ~a.autoResolved)

\* Faulty variant: the collection itself is sorted
SortedCopy_inplace(items, sorted) == [array |-> sorted, result |-> sorted]
\* [...items].sort(compare): the collection as it is left, and the sorted copy
SortedCopy(items, sorted) == [array |-> items, result |-> sorted]

\* item[field] || 0 as a ratio: counts are integers, the averages ratios, and a
\* field the item does not have gives 0
FieldValue(item, field) ==
    IF field \notin DOMAIN item THEN RatInt(0)
    ELSE IF field = "count" THEN RatInt(item[field])
    ELSE item[field]

\* calculateTrendStatus; data is always an array, the getters returning one
calculateTrendStatus(data, field, higherIsBetter) ==
    IF Len(data) < 3 THEN "stable"
    ELSE LET recent == SliceTail(data, 3)
             trend == calculateTrendDirection(MapSeq(recent, LAMBDA item : FieldValue(item, field)))
         IN IF RatGT(trend, 10) THEN (IF higherIsBetter THEN "improving" ELSE "declining")
            ELSE IF RatLT(trend, -10) THEN (IF higherIsBetter THEN "declining" ELSE "improving")
            ELSE "stable"

\* The trendAnalysis of the dashboard getDashboard returns in this state.  The
\* entries of errorPronePaths are {path, count} objects, which have no length.
trendAnalysis ==
    LET performanceData == getPerformanceAnalytics
        behaviorData == getUserBehaviorAnalytics
        healthData == getSystemHealthAnalytics
    IN [ performance |->
             calculateTrendStatus(performanceData.performanceTrends, "averageDuration", FALSE),
         efficiency |->
             calculateTrendStatus(performanceData.operationFrequency, "count", TRUE),
         userSatisfaction |->
             calculateTrendStatus(behaviorData.errorPronePaths, "length", FALSE),
         systemHealth |->
             IF RatGT(healthData.performanceScore, 80) THEN "improving" ELSE "declining" ]

\* The ids of the three lists of a dashboard
DashboardOf(ins, ans, recs) ==
    [ insights |-> MapSeq(ins, LAMBDA i : i.id),
      anomalies |-> MapSeq(ans, LAMBDA a : a.id),
      recommendations |-> MapSeq(recs, LAMBDA r : r.id) ]

getDashboard ==
    LET i == SortedCopy(insights, DashboardInsights(insights))
        a == SortedCopy(anomalies, DashboardAnomalies(anomalies))
        r == SortedCopy(recommendations, DashboardRecommendations(recommendations))
    IN /\ insights' = i.array
       /\ anomalies' = a.array
       /\ recommendations' = r.array
       /\ lastCall' = [Called("getDashboard", 0, "returned", TRUE)
                          EXCEPT !.dashboard = DashboardOf(i.result, a.result, r.result)]
       /\ UNCHANGED <<now, nextId, store, loggerVars, calls>>

\* Faulty variant: the dashboard is returned before the recommendation pass
\* and the table analysis have run
runFullAnalysis_partial ==
    LET a == AnomaliesAfterDetection(Coll(anomalies, "anomaly"))
        i == InsightsAfterPatterns(InsightsAfterGeneration(Coll(insights, "insight")))
    IN /\ anomalies' = a.items
       /\ insights' = i.items
       /\ nextId' = [nextId EXCEPT !["anomaly"] = a.next, !["insight"] = i.next]
       /\ lastCall' = [Called("runFullAnalysis", 0, "returned", TRUE)
                          EXCEPT !.dashboard = DashboardOf(DashboardInsights(i.items),
                                                           DashboardAnomalies(a.items),
                                                           DashboardRecommendations(recommendations))]
       /\ UNCHANGED <<now, store, loggerVars, calls, recommendations>>
\* runFullAnalysis: the five analyses are started in order and none of them
\* suspends, so each runs to its end before the next is started; after the
\* await, which lets no timer or event handler in, getDashboard() is returned.
runFullAnalysis ==
    LET a == AnomaliesAfterDetection(Coll(anomalies, "anomaly"))
        i == InsightsAfterPatterns(InsightsAfterGeneration(Coll(insights, "insight")))
        r == AddRecommendations(RecommendationsAfterUpdate(Coll(recommendations, "rec")),
                                optimizeTableAssignments(getChangeHistory))
    IN /\ anomalies' = a.items
       /\ insights' = i.items
       /\ recommendations' = r.items
       /\ nextId' = [nextId EXCEPT !["anomaly"] = a.next, !["insight"] = i.next, !["rec"] = r.next]
       /\ lastCall' = [Called("runFullAnalysis", 0, "returned", TRUE)
                          EXCEPT !.dashboard = DashboardOf(DashboardInsights(i.items),
                                                           DashboardAnomalies(a.items),
                                                           DashboardRecommendations(r.items))]
       /\ UNCHANGED <<now, store, loggerVars, calls>>

\* this.anomalies.find((a) => a.id === anomalyId): the index of the first match, 0 if none
FindById(items, id) ==
    IF \E i \in 1..Len(items) : items[i].id = id
    THEN CHOOSE i \in 1..Len(items) :
            items[i].id = id /\ \A j \in 1..(i - 1) : items[j].id # id
    ELSE 0

\* Faulty variant: falls back to the first anomaly when the id is not found
AnomaliesResolved_first(items, anomalyId) ==
    LET found == FindById(items, anomalyId)
        i == IF found = 0 /\ items # <<>> THEN 1 ELSE found
    IN IF i = 0 THEN items
       ELSE [items EXCEPT ![i] = [@ EXCEPT !.autoResolved = TRUE, !.resolvedAt = DateNow]]
AnomaliesResolved(items, anomalyId) ==
    LET i == FindById(items, anomalyId) IN
    IF i = 0 THEN items
    ELSE [items EXCEPT ![i] = [@ EXCEPT !.autoResolved = TRUE, !.resolvedAt = DateNow]]

resolveAnomaly(anomalyId) ==
    /\ anomalies' = AnomaliesResolved(anomalies, anomalyId)
    /\ lastCall' = Called("resolveAnomaly", anomalyId, "returned", TRUE)
    /\ UNCHANGED <<now, nextId, store, loggerVars, calls, insights, recommendations>>

\* Faulty variant: marks every recommendation of the found one's category
RecommendationsMarked_category(items, recommendationId, actualImpact) ==
    LET i == FindById(items, recommendationId) IN
    IF i = 0 THEN items
    ELSE [ j \in 1..Len(items) |->
             IF items[j].category = items[i].category
             THEN [items[j] EXCEPT !.implemented = TRUE, !.implementedAt = DateNow,
                                   !.actualImpact = IF actualImpact.given THEN actualImpact ELSE @]
             ELSE items[j] ]
RecommendationsMarked(items, recommendationId, actualImpact) ==
    LET i == FindById(items, recommendationId) IN
    IF i = 0 THEN items
    ELSE [items EXCEPT ![i] =
            [@ EXCEPT !.implemented = TRUE, !.implementedAt = DateNow,
                      !.actualImpact = IF actualImpact.given THEN actualImpact ELSE @]]

markRecommendationImplemented(recommendationId, actualImpact) ==
    /\ recommendations' = RecommendationsMarked(recommendations, recommendationId, actualImpact)
    /\ lastCall' = Called("markRecommendationImplemented", recommendationId, "returned", TRUE)
    /\ UNCHANGED <<now, nextId, store, loggerVars, calls, insights, anomalies>>

----------------------------------------------------------------------------
(* Initial states *)

InitMemory ==
    /\ now = 0
    /\ nextId = [p \in IdPrefixes |-> 1]
    /\ lastCall = NoCall
    /\ performanceMetrics = <<>>
    /\ userBehaviorMetrics = <<>>
    /\ systemHealthMetrics = <<>>
    /\ clickPath = <<>>
    /\ calls = <<>>
    /\ insights = <<>>
    /\ anomalies = <<>>
    /\ recommendations = <<>>

\* A page load on a browser with no stored history.
Init == InitMemory /\ store = <<>>

\* A stored history of n table assignments made in the hour before the page load.
TableLog(n) ==
    [ i \in 1..n |->
        [ id |-> 1 - i, timestamp |-> TimeOrigin - Hour, action_type |-> "UPDATE",
          operation |-> "ASSIGN_TABLE", batch_id |-> "", error_details |-> "",
          affected_count |-> 0 ] ]

\* A page load on a browser with no stored history or with a recent run of table assignments.
InitEngine == InitMemory /\ store \in {<<>>, TableLog(TableLogLen)}

\* A page load on a browser whose stored history is that run of table assignments.
InitCap == InitMemory /\ store = TableLog(TableLogLen)

\* A page load on a browser whose stored history is empty or almost full.
InitLog == InitMemory /\ store \in {PrefilledStore(0), PrefilledStore(PrefillLen)}

----------------------------------------------------------------------------
(* The change log on its own *)

NextLog ==
    /\ Fresh("change") <= MaxAppends
    /\ \/ \E p \in LogParams, ok \in BOOLEAN : logChange(p, ok)
       \/ clearChangeHistory
       \/ Advance(Day, Day)

SpecLog == InitLog /\ [][NextLog]_vars

----------------------------------------------------------------------------
(* Tracked operations: overlapping logChangeWithPerformance calls *)

TrackedOperations == {"ASSIGN_TABLE"}
TrackedMemory == {40}

NextTrack ==
    \/ \E op \in TrackedOperations, p \in LogParams, mem \in TrackedMemory :
           /\ p.operation = op
           /\ Len(calls) < MaxCalls
           /\ TrackOperationStart(op, p, mem)
    \/ \E c \in 1..MaxCalls, st \in Settlements, ok \in BOOLEAN : TrackOperationSettles(c, st, ok)
    \/ \E c \in 1..MaxCalls, mem \in TrackedMemory : TrackOperationFinish(c, mem)
    \/ Advance(1500, 1500)

SpecTrack == Init /\ [][NextTrack]_vars

----------------------------------------------------------------------------
(* The engine at work.  Each pass may create entries while fewer than the
   budgeted number of ids has been handed out; the clock moves in steps of
   twelve hours. *)

Tick == 12 * Hour

AnomalyBudget == Fresh("anomaly") <= MaxItems
InsightBudget == Fresh("insight") <= 2 * MaxItems
RecommendationBudget == Fresh("rec") <= MaxItems

\* The anomaly collection: health ticks feed the memory rule, the 60 s timer and
\* on-demand analyses detect, the dashboard resolves.
NextAnomalies ==
    \/ \E mem \in MemoryReadings :
           Len(systemHealthMetrics) < MaxSnapshots /\ recordSystemHealth(mem)
    \/ AnomalyBudget /\ runAnomalyDetection
    \/ AnomalyBudget /\ runFullAnalysis
    \/ \E id \in 1..Fresh("anomaly") : resolveAnomaly(id)
    \/ Advance(Tick, MaxTicks * Tick)

SpecAnomalies == InitEngine /\ [][NextAnomalies]_vars

\* The insight collection: bulk operations are logged and the history cleared,
\* the 300 s timer and on-demand analyses generate.
NextInsights ==
    \/ \E p \in LogParams :
           Fresh("change") <= MaxItems /\ p.batchId # "" /\ logChange(p, TRUE)
    \/ clearChangeHistory
    \/ InsightBudget /\ generatePredictiveInsights
    \/ InsightBudget /\ runFullAnalysis
    \/ Advance(Tick, MaxTicks * Tick)

SpecInsights == InitEngine /\ [][NextInsights]_vars

\* The recommendation collection: the 600 s timer and on-demand analyses
\* generate, the dashboard marks as implemented.
NextRecommendations ==
    \/ RecommendationBudget /\ updateRecommendations
    \/ RecommendationBudget /\ runFullAnalysis
    \/ \E id \in 1..Fresh("rec"), impact \in Impacts : markRecommendationImplemented(id, impact)
    \/ Advance(Tick, MaxTicks * Tick)

SpecRecommendations == InitEngine /\ [][NextRecommendations]_vars

\* The dashboard's reads between on-demand analyses, the Resolve and Implement
\* buttons and the passing of time.
NextDashboard ==
    \/ systemHealthMetrics = <<>> /\ recordSystemHealth(90)
    \/ AnomalyBudget /\ InsightBudget /\ RecommendationBudget /\ runFullAnalysis
    \/ \E i \in 1..Len(recommendations) :
           /\ ~recommendations[i].implemented
           /\ markRecommendationImplemented(recommendations[i].id, NoImpact)
    \/ getDashboard
    \/ Advance(Tick, MaxAge * Tick)

SpecDashboard == InitEngine /\ [][NextDashboard]_vars

\* "Clear all assignments" pressed up to MaxClears times between analyses
ClearCount(logs) ==
    Cardinality({i \in 1..Len(logs) : logs[i].operation = "CLEAR_ALL_ASSIGNMENTS"})

NextResets ==
    \/ ClearCount(store) < MaxClears /\ logChange(ClearAllParams, TRUE)
    \/ RecommendationBudget /\ updateRecommendations
    \/ AnomalyBudget /\ InsightBudget /\ RecommendationBudget /\ runFullAnalysis
    \/ \E id \in 1..Fresh("rec"), impact \in Impacts : markRecommendationImplemented(id, impact)

SpecResets == InitEngine /\ [][NextResets]_vars

\* The memory readings of successive health ticks: the first is 50 MB, each
\* further one is 10 MB below, at or above the one before
TrendReadings ==
    IF systemHealthMetrics = <<>> THEN {50}
    ELSE LET m == systemHealthMetrics[Len(systemHealthMetrics)].memoryUsage
         IN {m - 10, m, m + 10} \cap (0..200)

NextTrend ==
    \/ \E mem \in TrendReadings :
           Len(systemHealthMetrics) < MaxTrendSnapshots /\ recordSystemHealth(mem)
    \/ AnomalyBudget /\ runAnomalyDetection
    \/ \E id \in 1..Fresh("anomaly") : resolveAnomaly(id)

SpecTrend == Init /\ [][NextTrend]_vars

\* Ageing of the stored items: one collection at a time, its timer's pass, the
\* button that marks its items, and the clock
HalfWeek == Week \div 2

NextAnomalyAge ==
    \/ systemHealthMetrics = <<>> /\ recordSystemHealth(90)
    \/ AnomalyBudget /\ runAnomalyDetection
    \/ \E i \in 1..Len(anomalies) :
           ~anomalies[i].autoResolved /\ resolveAnomaly(anomalies[i].id)
    \/ Advance(Tick, MaxAge * Tick)

SpecAnomalyAge == Init /\ [][NextAnomalyAge]_vars

NextInsightAge ==
    \/ Fresh("change") <= MaxItems /\ logChange(ClearAllParams, TRUE)
    \/ InsightBudget /\ generatePredictiveInsights
    \/ InsightBudget /\ runFullAnalysis
    \/ clearChangeHistory
    \/ Advance(Tick, MaxAge * Tick)

SpecInsightAge == InitEngine /\ [][NextInsightAge]_vars

NextRecommendationAge ==
    \/ RecommendationBudget /\ updateRecommendations
    \/ RecommendationBudget /\ runFullAnalysis
    \/ \E i \in 1..Len(recommendations) :
           /\ ~recommendations[i].implemented
           /\ markRecommendationImplemented(recommendations[i].id, NoImpact)
    \/ Advance(HalfWeek, MaxAge * HalfWeek)

SpecRecommendationAge == InitEngine /\ [][NextRecommendationAge]_vars

\* The three passes with any of the aggregators' outputs missing: which of the
\* payloads a pass gets as null is chosen per pass.
Masks == [performance : BOOLEAN, behavior : BOOLEAN, health : BOOLEAN]
MaskCode(m) ==
    (IF m.performance THEN 1 ELSE 0) + (IF m.behavior THEN 2 ELSE 0) + (IF m.health THEN 4 ELSE 0)
Given(missing, data) == IF missing THEN Null ELSE data
PerformanceGiven(m) == Given(m.performance, getPerformanceAnalytics)
BehaviorGiven(m) == Given(m.behavior, getUserBehaviorAnalytics)
HealthGiven(m) == Given(m.health, getSystemHealthAnalytics)

runAnomalyDetectionOn(m) ==
    LET r == AnomaliesDetected(Coll(anomalies, "anomaly"),
                               PerformanceGiven(m), BehaviorGiven(m), HealthGiven(m)) IN
    /\ anomalies' = r.items
    /\ nextId' = [nextId EXCEPT !["anomaly"] = r.next]
    /\ lastCall' = Called("runAnomalyDetection", MaskCode(m), "returned", TRUE)
    /\ UNCHANGED <<now, store, loggerVars, calls, insights, recommendations>>

generatePredictiveInsightsOn(m) ==
    LET r == InsightsGenerated(Coll(insights, "insight"),
                               PerformanceGiven(m), BehaviorGiven(m), HealthGiven(m)) IN
    /\ insights' = r.items
    /\ nextId' = [nextId EXCEPT !["insight"] = r.next]
    /\ lastCall' = Called("generatePredictiveInsights", MaskCode(m), "returned", TRUE)
    /\ UNCHANGED <<now, store, loggerVars, calls, anomalies, recommendations>>

updateRecommendationsOn(m) ==
    LET r == RecommendationsUpdated(Coll(recommendations, "rec"),
                                    PerformanceGiven(m), BehaviorGiven(m)) IN
    /\ recommendations' = r.items
    /\ nextId' = [nextId EXCEPT !["rec"] = r.next]
    /\ lastCall' = Called("updateRecommendations", MaskCode(m), "returned", TRUE)
    /\ UNCHANGED <<now, store, loggerVars, calls, insights, anomalies>>

\* The callbacks of the event loop in any order: the 60 s, 300 s and 600 s
\* timers, the 5 s one-shot and on-demand full analyses, the Resolve and
\* Implement buttons, one health tick, and the passing of days.
NextTimers ==
    \/ systemHealthMetrics = <<>> /\ recordSystemHealth(90)
    \/ AnomalyBudget /\ runAnomalyDetection
    \/ Fresh("insight") <= MaxItems /\ generatePredictiveInsights
    \/ Fresh("rec") <= MaxItems + 1 /\ updateRecommendations
    \/ AnomalyBudget /\ Fresh("insight") <= MaxItems /\ Fresh("rec") <= MaxItems + 1
           /\ runFullAnalysis
    \/ \E i \in 1..Len(anomalies) :
           ~anomalies[i].autoResolved /\ resolveAnomaly(anomalies[i].id)
    \/ \E i \in 1..Len(recommendations) :
           /\ ~recommendations[i].implemented
           /\ markRecommendationImplemented(recommendations[i].id, NoImpact)
    \/ Advance(Day, MaxSnapshots * Day)

SpecTimers == InitCap /\ [][NextTimers]_vars

\* The whole engine within one tick of the clock.
Next ==
    \/ \E mem \in MemoryReadings :
           Len(systemHealthMetrics) < MaxSnapshots /\ recordSystemHealth(mem)
    \/ AnomalyBudget /\ runAnomalyDetection
    \/ InsightBudget /\ generatePredictiveInsights
    \/ RecommendationBudget /\ updateRecommendations
    \/ AnomalyBudget /\ InsightBudget /\ RecommendationBudget /\ runFullAnalysis
    \/ \E id \in 1..Fresh("anomaly") : resolveAnomaly(id)
    \/ \E id \in 1..Fresh("rec"), impact \in Impacts : markRecommendationImplemented(id, impact)

Spec == InitEngine /\ [][Next]_vars

----------------------------------------------------------------------------
(* Filling the three collections past their caps: anomalies by resolving the
   memory anomaly and detecting it again, recommendations by implementing the
   table-assignment recommendation and generating it again, insights by
   analysing the log, clearing it and logging an operation under a new name. *)

CustomParams(k) ==
    [type |-> "UPDATE", operation |-> "CUSTOM_" \o ToString(k), batchId |-> "",
     errorDetails |-> "", affectedCount |-> 0]

\* What the dashboard's Implement button passes
UiImpact == [given |-> TRUE, success |-> TRUE]

\* Every operation in the stored history has its high-frequency insight
Analysed ==
    \A i \in 1..Len(store) :
        \E j \in 1..Len(insights) : insights[j].title = HighFrequencyTitle(store[i].operation)

CapPhase ==
    IF Fresh("anomaly") <= MaxAnomalies + Overshoot THEN "anomalies"
    ELSE IF Fresh("rec") <= MaxRecommendations + Overshoot THEN "recommendations"
    ELSE IF Fresh("insight") <= MaxInsights + Overshoot THEN "insights"
    ELSE "done"

NextCap ==
    \/ /\ CapPhase = "anomalies"
       /\ \/ systemHealthMetrics = <<>> /\ recordSystemHealth(90)
          \/ runAnomalyDetection
          \/ \E i \in 1..Len(anomalies) :
                 ~anomalies[i].autoResolved /\ resolveAnomaly(anomalies[i].id)
    \/ /\ CapPhase = "recommendations"
       /\ \/ updateRecommendations
          \/ \E i \in 1..Len(recommendations) :
                 /\ ~recommendations[i].implemented
                 /\ markRecommendationImplemented(recommendations[i].id, UiImpact)
    \/ /\ CapPhase = "insights"
       /\ \/ Analysed /\ clearChangeHistory
          \/ store = <<>> /\ logChange(CustomParams(Fresh("change")), TRUE)
          \/ runFullAnalysis

SpecCap == InitCap /\ [][NextCap]_vars

----------------------------------------------------------------------------
(* Filling the three series of the collector past 1000 entries.  The page has
   been open for a while: in every 30 s period so far one tracked operation
   ran, the health timer ticked and one interaction was tracked.  Then more
   operations, ticks and interactions follow in any order. *)

\* startSystemHealthMonitoring: setInterval(..., 30000)
HealthInterval == 30000

SeriesTarget == MaxMetrics + Overshoot

OkSettlement == [ok |-> TRUE, value |-> "ok_result", error |-> NoError]

\* The calls that have not completed yet
Unsettled == {c \in 1..Len(calls) : calls[c].pc # "settled"}

\* Nothing was appended to the series at this instant yet
NotYetAt(series) == IF series = <<>> THEN TRUE ELSE series[Len(series)].timestamp < DateNow

\* What the "assign table" action logs
AssignParams == CHOOSE p \in LogParams : p.operation = "ASSIGN_TABLE"

\* Period i of the page's life starts at (i - 1) * 30 s
PeriodStart(i) == (i - 1) * HealthInterval

\* The sample, the log entry, the snapshot and the behaviour sample of period i
BusySample(i) ==
    [ operationId |-> i, operation |-> "ASSIGN_TABLE",
      startTime |-> PeriodStart(i), endTime |-> PeriodStart(i), duration |-> 0,
      success |-> TRUE, errorType |-> "",
      resourcesAffected |-> ResourcesAffected(AssignParams), memoryUsage |-> 0 ]
BusyEntry(i) ==
    [ id |-> i, timestamp |-> TimeOrigin + PeriodStart(i), action_type |-> AssignParams.type,
      operation |-> AssignParams.operation, batch_id |-> AssignParams.batchId,
      error_details |-> AssignParams.errorDetails,
      affected_count |-> AssignParams.affectedCount ]
BusySnapshot(i) ==
    [ timestamp |-> TimeOrigin + PeriodStart(i), memoryUsage |-> 40, activeUsers |-> 1,
      operationsPerMinute |-> Min(i, 2), errorRate |-> Rat(0, Min(i, 2)),
      averageResponseTime |-> Rat(0, Min(i, 10)), databaseConnections |-> 1 ]
BusyBehavior(i) ==
    [ sessionId |-> currentSession, timestamp |-> TimeOrigin + PeriodStart(i),
      action |-> "data_exported", clickPath |-> <<>>, errorEncountered |-> FALSE ]

\* The page after n such periods, at the start of the next one
Busy(n) ==
    /\ now = PeriodStart(n + 1)
    /\ nextId = [p \in IdPrefixes |-> IF p \in {"op", "change"} THEN n + 1 ELSE 1]
    /\ lastCall = Called("trackUserBehavior", 0, "returned", TRUE)
    /\ store = [i \in 1..n |-> BusyEntry(n + 1 - i)]
    /\ performanceMetrics = [i \in 1..n |-> BusySample(i)]
    /\ userBehaviorMetrics = [i \in 1..n |-> BusyBehavior(i)]
    /\ systemHealthMetrics = [i \in 1..n |-> BusySnapshot(i)]
    /\ clickPath = <<>>
    /\ calls = <<>>
    /\ insights = <<>>
    /\ anomalies = <<>>
    /\ recommendations = <<>>

InitSeries == Busy(PrefillLen)

NextSeries ==
    \/ \E p \in LogParams :
           /\ p.operation = "ASSIGN_TABLE"
           /\ Fresh("op") <= SeriesTarget
           /\ Unsettled = {}
           /\ TrackOperationStart("ASSIGN_TABLE", p, 40)
    \/ Len(calls) > 0 /\ TrackOperationSettles(Len(calls), OkSettlement, TRUE)
    \/ Len(calls) > 0 /\ TrackOperationFinish(Len(calls), 40)
    \/ Unsettled = {} /\ NotYetAt(systemHealthMetrics) /\ recordSystemHealth(40)
    \/ Unsettled = {} /\ NotYetAt(userBehaviorMetrics)
           /\ trackUserBehavior("data_exported", FALSE)
    \/ /\ Unsettled = {}
       /\ ~NotYetAt(systemHealthMetrics)
       /\ ~NotYetAt(userBehaviorMetrics)
       /\ Advance(HealthInterval, SeriesTarget * HealthInterval)

SpecSeries == InitSeries /\ [][NextSeries]_vars

\* Tracked operations, one after the other, that take whole seconds (the clock
\* is moved only while an operation is under way), and anomaly passes over
\* their samples, run between two operations (a sample is recorded only when
\* its operation finishes, so a pass during an operation reads the same samples)
Second == 1000
SpikeHorizon == MaxSeconds * Second

NextSpike ==
    \/ \E p \in LogParams :
           /\ p.operation = "ASSIGN_TABLE"
           /\ Len(calls) < MaxCalls
           /\ \A c \in 1..Len(calls) : calls[c].pc = "settled"
           /\ TrackOperationStart("ASSIGN_TABLE", p, 40)
    \/ \E c \in 1..MaxCalls : TrackOperationSettles(c, OkSettlement, TRUE)
    \/ \E c \in 1..MaxCalls : TrackOperationFinish(c, 40)
    \/ (\E c \in 1..Len(calls) : calls[c].pc = "awaitOperation")
           /\ Advance(Second, SpikeHorizon)
    \/ /\ \A c \in 1..Len(calls) : calls[c].pc = "settled"
       /\ AnomalyBudget
       /\ runAnomalyDetection
    \/ \E id \in 1..Fresh("anomaly") :
           /\ \A c \in 1..Len(calls) : calls[c].pc = "settled"
           /\ resolveAnomaly(id)

SpecSpike == Init /\ [][NextSpike]_vars

\* The passes are run with one payload missing
OneMissing == {m \in Masks : MaskCode(m) \in {1, 2, 4}}

\* One tracked operation that takes whole seconds, one tracked interaction and
\* one health tick feed the aggregators; each pass runs while its collection
\* is empty and no tracked operation is under way.
NextPayloads ==
    \/ \E p \in LogParams :
           /\ p.operation = "ASSIGN_TABLE"
           /\ calls = <<>>
           /\ TrackOperationStart("ASSIGN_TABLE", p, 40)
    \/ calls # <<>> /\ TrackOperationSettles(1, OkSettlement, TRUE)
    \/ calls # <<>> /\ TrackOperationFinish(1, 40)
    \/ calls # <<>> /\ calls[1].pc = "awaitOperation" /\ Advance(Second, MaxCalls * Second)
    \/ userBehaviorMetrics = <<>> /\ trackUserBehavior("data_exported", FALSE)
    \/ systemHealthMetrics = <<>> /\ recordSystemHealth(90)
    \/ /\ \A c \in 1..Len(calls) : calls[c].pc = "settled"
       /\ \E m \in OneMissing :
             \/ anomalies = <<>> /\ runAnomalyDetectionOn(m)
             \/ insights = <<>> /\ generatePredictiveInsightsOn(m)
             \/ recommendations = <<>> /\ updateRecommendationsOn(m)

SpecPayloads == InitCap /\ [][NextPayloads]_vars

\* What feeds a health snapshot: entries logged directly, tracked operations
\* one after the other that succeed or fail and take 0, 600, 1200, ... ms
\* (the clock moves only while one is under way), and the health tick before
\* the first or after the last of them, followed by an anomaly pass.
OperationTimes == {600}
FailedSettlement == CHOOSE st \in Settlements : ~st.ok /\ st.error.isError

NextScore ==
    \/ \E p \in LogParams :
           /\ p.operation = "ASSIGN_TABLE"
           /\ calls = <<>>
           /\ Fresh("change") <= MaxAppends
           /\ logChange(p, TRUE)
    \/ \E p \in LogParams :
           /\ p.operation = "ASSIGN_TABLE"
           /\ Len(calls) < MaxCalls
           /\ \A c \in 1..Len(calls) : calls[c].pc = "settled"
           /\ TrackOperationStart("ASSIGN_TABLE", p, 40)
    \/ \E st \in {OkSettlement, FailedSettlement} :
           calls # <<>> /\ TrackOperationSettles(Len(calls), st, TRUE)
    \/ calls # <<>> /\ TrackOperationFinish(Len(calls), 40)
    \/ \E d \in OperationTimes :
           /\ calls # <<>>
           /\ calls[Len(calls)].pc = "awaitOperation"
           /\ Advance(d, MaxCalls * d)
    \/ \E mem \in MemoryReadings :
           /\ Len(systemHealthMetrics) < MaxSnapshots
           /\ calls = <<>> \/ (Len(calls) = MaxCalls /\ calls[MaxCalls].pc = "settled")
           /\ recordSystemHealth(mem)
    \/ systemHealthMetrics # <<>> /\ anomalies = <<>> /\ runAnomalyDetection

SpecScore == Init /\ [][NextScore]_vars

\* Health ticks over a history that spans more than a minute and more than ten
\* samples: tracked operations one after the other, of which the first
\* MaxCalls may fail and may take time and be set apart by periods of the health
\* timer, which ticks before the first or after the last operation.
HealthOperations == 10 + Overshoot
AllSettled == Unsettled = {}
HealthHorizon == (MaxTicks + 1) * HealthInterval

NextHealth ==
    \/ \E p \in LogParams :
           /\ p.operation = "ASSIGN_TABLE"
           /\ Len(calls) < HealthOperations
           /\ AllSettled
           /\ TrackOperationStart("ASSIGN_TABLE", p, 40)
    \/ \E st \in {OkSettlement, FailedSettlement} :
           /\ calls # <<>>
           /\ st.ok \/ Len(calls) <= MaxCalls
           /\ TrackOperationSettles(Len(calls), st, TRUE)
    \/ calls # <<>> /\ TrackOperationFinish(Len(calls), 40)
    \/ \E d \in OperationTimes :
           /\ calls # <<>>
           /\ Len(calls) <= MaxCalls
           /\ calls[Len(calls)].pc = "awaitOperation"
           /\ now + d - calls[Len(calls)].startTime <= d
           /\ Advance(d, HealthHorizon + MaxCalls * d)
    \/ /\ AllSettled
       /\ Len(calls) \in {0, HealthOperations}
       /\ Len(systemHealthMetrics) < MaxSnapshots
       /\ recordSystemHealth(40)
    \/ AllSettled /\ Len(calls) <= MaxCalls /\ Advance(HealthInterval, HealthHorizon)

SpecHealth == Init /\ [][NextHealth]_vars

\* The insight timer once the health timer has taken its first snapshot, a
\* heavy one: with no performance sample the success rate counts as 0, and the
\* system score stays at 75 from then on
NextRecurring ==
    \/ systemHealthMetrics = <<>> /\ recordSystemHealth(90)
    \/ Fresh("change") <= MaxItems /\ logChange(ClearAllParams, TRUE)
    \/ systemHealthMetrics # <<>> /\ InsightBudget /\ generatePredictiveInsights
    \/ Advance(Tick, MaxAge * Tick)

SpecRecurring == InitEngine /\ [][NextRecurring]_vars

\* The recommendation timer around a performance series that fills up, on the
\* page that has been open for a while: tracked operations run one after the
\* other in the current period until the series has overflowed, interactions
\* are tracked and the 600 s pass runs at any point.
NextCapacity ==
    \/ \E p \in LogParams :
           /\ p.operation = "ASSIGN_TABLE"
           /\ Fresh("op") <= SeriesTarget
           /\ AllSettled
           /\ now = PeriodStart(PrefillLen + 1)
           /\ TrackOperationStart("ASSIGN_TABLE", p, 40)
    \/ calls # <<>> /\ TrackOperationSettles(Len(calls), OkSettlement, TRUE)
    \/ calls # <<>> /\ TrackOperationFinish(Len(calls), 40)
    \/ AllSettled /\ NotYetAt(userBehaviorMetrics) /\ trackUserBehavior("data_exported", FALSE)
    \/ AllSettled /\ RecommendationBudget /\ updateRecommendations
    \/ AllSettled /\ Advance(HealthInterval, SeriesTarget * HealthInterval)

SpecCapacity == InitSeries /\ [][NextCapacity]_vars

\* Overlapping tracked operations whose log writes succeed: a call may start
\* while others are suspended, and the suspended calls resume in any order.
NextOverlap ==
    \/ \E op \in TrackedOperations, p \in LogParams :
           /\ p.operation = op
           /\ Len(calls) < MaxCalls
           /\ TrackOperationStart(op, p, 40)
    \/ \E c \in 1..MaxCalls, st \in Settlements : TrackOperationSettles(c, st, TRUE)
    \/ \E c \in 1..MaxCalls : TrackOperationFinish(c, 40)
    \/ Advance(1500, 1500)

SpecOverlap == Init /\ [][NextOverlap]_vars

\* The dashboard's trend labels: clicks and failed interactions first, then
\* tracked operations of several kinds one after the other; the health timer
\* ticks once and the page reads the dashboard between operations.
LabelOperations == MaxCalls + 2

NextLabels ==
    \/ calls = <<>> /\ Len(clickPath) < 2 /\ Len(userBehaviorMetrics) > Len(clickPath)
           /\ Click("button#save")
    \/ calls = <<>> /\ Len(userBehaviorMetrics) <= Len(clickPath)
           /\ trackUserBehavior("data_exported", TRUE)
    \/ \E p \in LogParams :
           /\ Len(calls) < LabelOperations
           /\ AllSettled
           /\ TrackOperationStart(p.operation, p, 40)
    \/ calls # <<>> /\ TrackOperationSettles(Len(calls), OkSettlement, TRUE)
    \/ calls # <<>> /\ TrackOperationFinish(Len(calls), 40)
    \/ \E mem \in MemoryReadings :
           /\ AllSettled
           /\ Len(calls) \in {0, LabelOperations}
           /\ systemHealthMetrics = <<>>
           /\ recordSystemHealth(mem)
    \/ AllSettled /\ lastCall.op # "getDashboard" /\ getDashboard

SpecLabels == Init /\ [][NextLabels]_vars

----------------------------------------------------------------------------
(* Properties of the change log *)

\* A step in which logChange was called / wrote its entry
IsLogChangeStep == nextId' = TakeIds("change", 1) /\ lastCall'.op = "logChange"

IdsNewestFirst(s) == \A i \in 1..(Len(s) - 1) : s[i].id > s[i + 1].id

C2_AppendStep ==
    (IsLogChangeStep /\ lastCall'.ok) =>
        /\ store'[1].id = Fresh("change")
        /\ Len(store') = Min(Len(store) + 1, MaxLogs)
        /\ \A i \in 2..Len(store') : store'[i] = store[i - 1]

\* C2: getChangeHistory returns the retained entries newest first, in exact
\* reverse insertion order (ids are handed out in insertion order); it never
\* holds more than 1000 entries; an append puts the new entry first and keeps
\* the previous entries in order, so that on a full log only the oldest is dropped.
C2_NewestFirstAndCapped ==
    /\ [](Len(getChangeHistory) <= MaxLogs /\ IdsNewestFirst(getChangeHistory))
    /\ [][C2_AppendStep]_vars

\* the 1001st entry has been appended and the oldest stored entry is gone
C2_Witness ==
    /\ Len(store) = MaxLogs
    /\ store[1].id > 0
    /\ store[MaxLogs].id > 1 - PrefillLen

C4_FailedWriteStep ==
    IsLogChangeStep =>
        /\ lastCall'.outcome = "returned"
        /\ (~lastCall'.ok => store' = store)

C4_OnlyOwnEntryWritten ==
    (store' # store /\ store' # <<>>) =>
        (IsLogChangeStep /\ lastCall'.ok /\ store'[1].id = Fresh("change"))

\* C4: logChange always returns normally to its caller; when the write to
\* localStorage fails the stored log is exactly what it was before the call,
\* and no later step writes the entry (the store only ever changes by a
\* successful call writing its own new entry, or by a clear).
C4_AppendNeverFails == [][C4_FailedWriteStep /\ C4_OnlyOwnEntryWritten]_vars

\* a write has just failed on a non-empty log
C4_Witness == lastCall.op = "logChange" /\ ~lastCall.ok /\ Len(store) > PrefillLen

----------------------------------------------------------------------------
(* Properties of logChangeWithPerformance *)

SamplesOf(call) ==
    { i \in 1..Len(performanceMetrics) : performanceMetrics[i].operationId = call.operationId }

C3_SettledCall(call) ==
    /\ Cardinality(SamplesOf(call)) = 1
    /\ \A i \in SamplesOf(call) :
          /\ performanceMetrics[i].success = call.settlement.ok
          /\ performanceMetrics[i].errorType =
                (IF call.settlement.ok THEN ""
                 ELSE IF call.settlement.error.isError THEN call.settlement.error.ctor
                 ELSE "UnknownError")
    /\ IF call.settlement.ok
       THEN call.outcome = "returned" /\ call.returned = call.settlement.value
       ELSE call.outcome = "threw" /\ call.thrown = call.settlement.error

\* C3: a logChangeWithPerformance call whose work failed with error e has, by
\* the time it settles, appended exactly one sample with success = FALSE and
\* errorType = the class name of e ("UnknownError" when e is no Error), and
\* rejects with e itself; a call whose work succeeded has appended exactly one
\* sample with success = TRUE and returns the work's result.  A call that has
\* not settled yet has appended no sample.
C3_FailureRecordedAndRethrown ==
    \A c \in 1..Len(calls) :
        IF calls[c].pc = "settled" THEN C3_SettledCall(calls[c])
        ELSE SamplesOf(calls[c]) = {} /\ calls[c].outcome = "pending"

\* one call failed with an Error, another with a thrown non-Error, both settled
C3_Witness ==
    /\ Len(calls) = 2
    /\ calls[1].pc = "settled" /\ ~calls[1].settlement.ok /\ calls[1].settlement.error.isError
    /\ calls[2].pc = "settled" /\ ~calls[2].settlement.ok /\ ~calls[2].settlement.error.isError
    /\ Len(performanceMetrics) = 2

----------------------------------------------------------------------------
(* Properties of the anomaly collection *)

SameAnomalyKey(a, b) == a.type = b.type /\ a.title = b.title

UnresolvedUnique ==
    \A i, j \in 1..Len(anomalies) :
        (i # j /\ ~anomalies[i].autoResolved /\ ~anomalies[j].autoResolved)
            => ~SameAnomalyKey(anomalies[i], anomalies[j])

C1_DuplicateDropped ==
    \A i \in 1..Len(anomalies) :
        ~anomalies[i].autoResolved =>
            \A j \in 1..Len(anomalies') :
                (SameAnomalyKey(anomalies'[j], anomalies[i]) /\ ~anomalies'[j].autoResolved)
                    => anomalies'[j] = anomalies[i]

\* C1: in every reachable state, whatever detection passes, full analyses and
\* resolveAnomaly calls came before, no two anomalies with autoResolved = FALSE
\* share a (type, title) pair; and while an anomaly is unresolved, a step leaves
\* it as the only unresolved anomaly of its pair, unchanged: a rule firing
\* again adds nothing.
C1_AtMostOneUnresolved == []UnresolvedUnique /\ [][C1_DuplicateDropped]_vars

\* the memory anomaly detected at page load is still the only one of its pair
\* after a full analysis run twelve hours later on the same 90 MB snapshot
C1_Witness ==
    /\ Len(systemHealthMetrics) = 1
    /\ systemHealthMetrics[1].memoryUsage = 90
    /\ systemHealthMetrics[1].timestamp = TimeOrigin
    /\ \E k \in 1..Len(insights) : insights[k].createdAt = TimeOrigin + Tick
    /\ \E i \in 1..Len(anomalies) :
          /\ anomalies[i].type = "capacity_issue"
          /\ anomalies[i].title = "High Memory Usage Detected"
          /\ ~anomalies[i].autoResolved
          /\ anomalies[i].detectedAt = TimeOrigin
          /\ \A j \in 1..Len(anomalies) : SameAnomalyKey(anomalies[j], anomalies[i]) => j = i

\* The step is the call resolveAnomaly(id); the recorded argument is compared
\* first, which settles most steps at once.
ResolveCalled(id) == lastCall'.arg = id /\ resolveAnomaly(id)

C5_ResolveStep ==
    \A id \in 1..Fresh("anomaly") :
        (ResolveCalled(id) /\ FindById(anomalies, id) # 0) =>
            LET i == FindById(anomalies, id) IN
            /\ lastCall'.outcome = "returned"
            /\ Len(anomalies') = Len(anomalies)
            /\ anomalies'[i].autoResolved
            /\ anomalies'[i].resolvedAt # Undefined
            /\ \A j \in 1..Len(anomalies) : j # i => anomalies'[j] = anomalies[j]
            /\ (anomalies[i].autoResolved => anomalies' = anomalies)

\* C5: resolveAnomaly(id) for an id in the collection returns normally and
\* leaves that anomaly with autoResolved = TRUE and resolvedAt set, every other
\* entry as it was and the number of entries the same; when the anomaly was
\* already resolved the collection is left exactly as it was.
C5_ResolveThenNoOp == [][C5_ResolveStep]_vars

----------------------------------------------------------------------------
(* Properties of the two dashboard buttons *)

\* The step is the call markRecommendationImplemented(id, impact)
MarkCalled(id, impact) == lastCall'.arg = id /\ markRecommendationImplemented(id, impact)

C6_MarkStep ==
    \A id \in 1..Fresh("rec"), impact \in Impacts :
        (MarkCalled(id, impact) /\ FindById(recommendations, id) # 0) =>
            LET i == FindById(recommendations, id)
                before == recommendations[i]
                after == recommendations'[i]
            IN /\ Len(recommendations') = Len(recommendations)
               /\ after.implemented
               /\ after.implementedAt = DateNow /\ after.implementedAt # Undefined
               /\ after.actualImpact = (IF impact.given THEN impact ELSE before.actualImpact)
               /\ after.id = before.id /\ after.createdAt = before.createdAt
               /\ after.validUntil = before.validUntil /\ after.category = before.category
               /\ after.title = before.title /\ after.priority = before.priority
               /\ \A j \in 1..Len(recommendations) :
                     j # i => recommendations'[j] = recommendations[j]
               /\ insights' = insights
               /\ anomalies' = anomalies
               /\ LET tab == NotImplementedTab(recommendations') IN
                  \A k \in 1..Len(tab) : tab[k].id # id

\* C6: markRecommendationImplemented(id, impact) for an id in the collection
\* sets implemented, stamps implementedAt with the time of the call and stores
\* the impact when one is given (keeping the previous one otherwise); the
\* recommendation's other fields, every other recommendation, the insights and
\* the anomalies are unchanged, and the recommendation is absent from the
\* dashboard's not-implemented list afterwards.
C6_MarkSetsOnlyThatRecommendation == [][C6_MarkStep]_vars

\* a recommendation was just marked with {success: true} while another
\* recommendation, an insight and an anomaly are there to be left alone
C6_Witness ==
    /\ lastCall.op = "markRecommendationImplemented"
    /\ insights # <<>>
    /\ anomalies # <<>>
    /\ \E i, j \in 1..Len(recommendations) :
          /\ recommendations[i].id = lastCall.arg
          /\ recommendations[i].implemented
          /\ recommendations[i].actualImpact.given
          /\ recommendations[i].actualImpact.success
          /\ ~recommendations[j].implemented
          /\ recommendations[j].category = recommendations[i].category

C7_UnknownIdStep ==
    /\ \A id \in 1..Fresh("anomaly") :
          (ResolveCalled(id) /\ FindById(anomalies, id) = 0) =>
              engineVars' = engineVars /\ lastCall'.outcome = "returned"
    /\ \A id \in 1..Fresh("rec"), impact \in Impacts :
          (MarkCalled(id, impact) /\ FindById(recommendations, id) = 0) =>
              engineVars' = engineVars /\ lastCall'.outcome = "returned"

\* C7: resolveAnomaly and markRecommendationImplemented called with an id that
\* is in no entry of the respective collection return normally and leave the
\* insights, the anomalies and the recommendations exactly as they were.
C7_UnknownIdIsNoOp == [][C7_UnknownIdStep]_vars

\* resolveAnomaly was just called with an id no anomaly has, while the three
\* collections hold entries it could have touched
C7_Witness ==
    /\ lastCall.op = "resolveAnomaly"
    /\ FindById(anomalies, lastCall.arg) = 0
    /\ \E i \in 1..Len(anomalies) : ~anomalies[i].autoResolved
    /\ recommendations # <<>>
    /\ insights # <<>>

----------------------------------------------------------------------------
(* Properties of the insight collection *)

SameInsightKey(a, b) == a.type = b.type /\ a.title = b.title

InsightUnique ==
    \A i, j \in 1..Len(insights) : i # j => ~SameInsightKey(insights[i], insights[j])

C8_ExistingKept ==
    \A i \in 1..Len(insights) :
        insights[i].expiresAt > DateNow =>
            \A j \in 1..Len(insights') :
                SameInsightKey(insights'[j], insights[i]) => insights'[j] = insights[i]

C8_ExpiredStillBlocks ==
    generatePredictiveInsights =>
        \A i \in 1..Len(insights) :
            insights[i].expiresAt <= DateNow =>
                \A j \in 1..Len(insights') : ~SameInsightKey(insights'[j], insights[i])

\* C8: in every reachable state no two insights share a (type, title) pair;
\* a step leaves an unexpired insight as the only one of its pair, unchanged
\* (createdAt and expiresAt included), so a rule producing the pair again adds
\* nothing; and an expired insight not yet purged still suppresses a new one of
\* its pair: after the 300 s pass the collection holds none of that pair.
C8_AtMostOnePerKey ==
    []InsightUnique /\ [][C8_ExistingKept /\ C8_ExpiredStillBlocks]_vars

\* the load insight generated at page load is unchanged after a full analysis
\* of the same history twelve hours later, which created the pattern insights
C8_Witness ==
    /\ store = TableLog(TableLogLen)
    /\ \E i, k \in 1..Len(insights) :
          /\ insights[i].title = "Increased Load Predicted"
          /\ insights[i].createdAt = TimeOrigin
          /\ insights[i].expiresAt = TimeOrigin + Day
          /\ insights[k].title = "Low Batch Operation Usage Detected"
          /\ insights[k].createdAt = TimeOrigin + Tick

----------------------------------------------------------------------------
(* Properties of the recommendation collection *)

SameRecommendationKey(a, b) == a.category = b.category /\ a.title = b.title

NotImplementedUnique ==
    \A i, j \in 1..Len(recommendations) :
        (i # j /\ ~recommendations[i].implemented /\ ~recommendations[j].implemented)
            => ~SameRecommendationKey(recommendations[i], recommendations[j])

\* C9: in every reachable state, whatever recommendation passes, full analyses
\* and markRecommendationImplemented calls came before, no two recommendations
\* with implemented = FALSE share a (category, title) pair.
C9_AtMostOneNotImplemented == NotImplementedUnique

\* the table-assignment recommendation generated at page load is still the
\* only one of its pair after a full analysis of the same history twelve hours
\* later, which added the table-utilization recommendation
C9_Witness ==
    /\ store = TableLog(TableLogLen)
    /\ \E i, k \in 1..Len(recommendations) :
          /\ recommendations[i].title = "Optimize Table Assignment Strategy"
          /\ ~recommendations[i].implemented
          /\ recommendations[i].createdAt = TimeOrigin
          /\ recommendations[k].title = "Optimize Table Utilization Strategy"
          /\ recommendations[k].createdAt = TimeOrigin + Tick
          /\ \A m \in 1..Len(recommendations) :
                SameRecommendationKey(recommendations[m], recommendations[i]) => m = i

----------------------------------------------------------------------------
(* Properties of the caps *)

\* A step that created k entries, numbered from firstId, on a collection capped at cap
AddedUnderCap(old, new, k, cap, firstId) ==
    k > 0 =>
        LET kept == Len(new) - k IN
        /\ Len(new) = Min(Len(old) + k, cap)
        /\ \A j \in 1..k : new[kept + j].id = firstId + j - 1
        /\ \A j \in 1..kept : new[j] = old[Len(old) - kept + j]

C10_WithinCaps ==
    /\ Len(insights) <= MaxInsights
    /\ Len(anomalies) <= MaxAnomalies
    /\ Len(recommendations) <= MaxRecommendations

C10_AddStep ==
    /\ AddedUnderCap(insights, insights', nextId'["insight"] - nextId["insight"],
                     MaxInsights, Fresh("insight"))
    /\ AddedUnderCap(anomalies, anomalies', nextId'["anomaly"] - nextId["anomaly"],
                     MaxAnomalies, Fresh("anomaly"))
    /\ AddedUnderCap(recommendations, recommendations', nextId'["rec"] - nextId["rec"],
                     MaxRecommendations, Fresh("rec"))

\* C10: the insights never number more than 50, the anomalies never more than
\* 100, the recommendations never more than 30; a step that creates entries
\* leaves them at the end of the collection, preceded by the most recently
\* inserted of the previous entries in their order, so that what a full
\* collection loses is its earliest-inserted entries.
C10_CappedOldestTrimmed == []C10_WithinCaps /\ [][C10_AddStep]_vars

\* each collection is full and has lost its first entry to a newer one
C10_Witness ==
    /\ Len(anomalies) = MaxAnomalies
    /\ anomalies[1].id > 1
    /\ anomalies[MaxAnomalies].id > MaxAnomalies
    /\ Len(recommendations) = MaxRecommendations
    /\ recommendations[1].id > 1
    /\ recommendations[MaxRecommendations].id > MaxRecommendations
    /\ Len(insights) = MaxInsights
    /\ insights[1].id > 1
    /\ insights[MaxInsights].id > MaxInsights

----------------------------------------------------------------------------
(* Properties of the collector's series *)

SeriesWithinCap ==
    /\ Len(performanceMetrics) <= MaxMetrics
    /\ Len(userBehaviorMetrics) <= MaxMetrics
    /\ Len(systemHealthMetrics) <= MaxMetrics

\* A series is left alone, or gets one entry at its end and, when that makes
\* 1001, loses its first entry and nothing else
AppendedDropOldest(old, new) ==
    \/ new = old
    \/ LET dropped == Len(old) + 1 - Len(new) IN
       /\ Len(new) = Min(Len(old) + 1, MaxMetrics)
       /\ \A j \in 1..(Len(new) - 1) : new[j] = old[j + dropped]

\* The entry an operation appends is the last one of its series afterwards
NewestKept ==
    /\ (TrackOperationFinish(Len(calls), 40) =>
            performanceMetrics'[Len(performanceMetrics')].operationId = calls[Len(calls)].operationId)
    /\ (trackUserBehavior("data_exported", FALSE) =>
            userBehaviorMetrics'[Len(userBehaviorMetrics')].timestamp = DateNow)
    /\ (recordSystemHealth(40) =>
            systemHealthMetrics'[Len(systemHealthMetrics')] = HealthSnapshot(40))

C11_SeriesStep ==
    /\ NewestKept
    /\ AppendedDropOldest(performanceMetrics, performanceMetrics')
    /\ AppendedDropOldest(userBehaviorMetrics, userBehaviorMetrics')
    /\ AppendedDropOldest(systemHealthMetrics, systemHealthMetrics')
    /\ (performanceMetrics' # performanceMetrics =>
            userBehaviorMetrics' = userBehaviorMetrics /\ systemHealthMetrics' = systemHealthMetrics)
    /\ (userBehaviorMetrics' # userBehaviorMetrics =>
            performanceMetrics' = performanceMetrics /\ systemHealthMetrics' = systemHealthMetrics)
    /\ (systemHealthMetrics' # systemHealthMetrics =>
            performanceMetrics' = performanceMetrics /\ userBehaviorMetrics' = userBehaviorMetrics)

\* C11: none of the three series ever holds more than 1000 entries; a step
\* changes at most one of them, by appending one entry and, on a full series,
\* dropping that series' oldest entry only; the other two series are left
\* exactly as they were.
C11_SeriesCappedIndependently == []SeriesWithinCap /\ [][C11_SeriesStep]_vars

\* the three series are full and each has lost its first entry
C11_Witness ==
    /\ Len(performanceMetrics) = MaxMetrics
    /\ performanceMetrics[1].operationId > 1
    /\ Len(systemHealthMetrics) = MaxMetrics
    /\ systemHealthMetrics[1].timestamp > TimeOrigin
    /\ Len(userBehaviorMetrics) = MaxMetrics
    /\ userBehaviorMetrics[1].timestamp > TimeOrigin

----------------------------------------------------------------------------
(* What may change in a stored item *)

InsightsFrozen ==
    \A i \in 1..Len(insights), j \in 1..Len(insights') :
        insights[i].id = insights'[j].id => insights'[j] = insights[i]

AnomaliesFrame ==
    \A i \in 1..Len(anomalies), j \in 1..Len(anomalies') :
        anomalies[i].id = anomalies'[j].id =>
            LET a == anomalies[i]
                b == anomalies'[j]
            IN /\ [b EXCEPT !.autoResolved = a.autoResolved, !.resolvedAt = a.resolvedAt] = a
               /\ (b # a => ResolveCalled(a.id))
               /\ (a.autoResolved => b.autoResolved)

RecommendationsFrame ==
    \A i \in 1..Len(recommendations), j \in 1..Len(recommendations') :
        recommendations[i].id = recommendations'[j].id =>
            LET r == recommendations[i]
                q == recommendations'[j]
            IN /\ [q EXCEPT !.implemented = r.implemented, !.implementedAt = r.implementedAt,
                            !.actualImpact = r.actualImpact] = r
               /\ (q # r => \E impact \in Impacts : MarkCalled(r.id, impact))
               /\ (r.implemented => q.implemented)

C12_FrameStep == InsightsFrozen /\ AnomaliesFrame /\ RecommendationsFrame

\* C12: an item that is in its collection before and after a step keeps every
\* field, except that resolveAnomaly(id) may change autoResolved and resolvedAt
\* of the anomaly with that id and markRecommendationImplemented(id, ...) may
\* change implemented, implementedAt and actualImpact of the recommendation
\* with that id; autoResolved and implemented never go from true to false.
C12_ItemsChangeOnlyByMarking == [][C12_FrameStep]_vars

\* a resolved anomaly sits beside a later one of the same title, an implemented
\* recommendation carries its impact, and an insight is stored
C12_Witness ==
    /\ \E i, j \in 1..Len(anomalies) :
           /\ anomalies[i].autoResolved /\ ~anomalies[j].autoResolved
           /\ anomalies[i].title = anomalies[j].title
    /\ \E i \in 1..Len(recommendations) :
           recommendations[i].implemented /\ recommendations[i].actualImpact.given
    /\ insights # <<>>

----------------------------------------------------------------------------
(* Expiry of insights *)

\* getInsights(): a copy of the collection
getInsights(items) == items

Ids(items) == {items[i].id : i \in 1..Len(items)}

\* What the timer's insight pass, and the insight analyses of a full
\* analysis, would leave of the collection in this state
AfterGeneration == InsightsAfterGeneration(Coll(insights, "insight")).items
AfterFullGeneration ==
    InsightsAfterPatterns(InsightsAfterGeneration(Coll(insights, "insight"))).items

\* A generation pass leaves no insight whose expiry lies before its own time
ExpiredGone ==
    \A i \in 1..Len(insights) :
        insights[i].expiresAt < DateNow =>
            /\ insights[i].id \notin Ids(getInsights(AfterGeneration))
            /\ insights[i].id \notin Ids(DashboardInsights(AfterGeneration))
            /\ insights[i].id \notin Ids(getInsights(AfterFullGeneration))
            /\ insights[i].id \notin Ids(DashboardInsights(AfterFullGeneration))

\* An insight that has left the collection does not come back
NeverBack ==
    \A id \in Ids(insights') : id \in Ids(insights) \/ id >= Fresh("insight")

\* C13: a generation pass (the timer's or the one inside a full analysis) that
\* runs after an insight's expiresAt removes that insight, so that neither
\* getInsights() nor getDashboard().insights holds it, and no later step puts
\* it back.
C13_ExpiredInsightAbsent == []ExpiredGone /\ [][NeverBack]_vars

\* a day and a half after start-up the insights of the first day have been
\* removed and only insights generated now are stored
C13_Witness ==
    /\ now = 3 * Tick
    /\ insights # <<>>
    /\ \A i \in 1..Len(insights) : insights[i].createdAt = DateNow
    /\ Fresh("insight") > Len(insights) + 1

----------------------------------------------------------------------------
(* Cleanup of anomalies *)

\* What an anomaly-detection pass run in this state leaves in the collection
AfterPass == AnomaliesAfterDetection(Coll(anomalies, "anomaly")).items

\* The stored anomalies that a pass removes are exactly those satisfying old(a)
CleanupRemovesExactly(old(_)) ==
    \A i \in 1..Len(anomalies) :
        anomalies[i].id \notin Ids(AfterPass) <=> old(anomalies[i])

ResolvedMoreThanADay(a) == a.autoResolved /\ a.detectedAt < DateNow - Day
ResolvedAtLeastADay(a) == a.autoResolved /\ a.detectedAt <= DateNow - Day

\* C14 as stated: a pass removes an anomaly if and only if it was detected
\* more than 24 hours ago and is resolved.
C14_RemovedIffOlderThanADay == CleanupRemovesExactly(ResolvedMoreThanADay)

\* C14, amended: a pass removes an anomaly if and only if it is resolved and was
\* detected 24 hours ago or earlier; unresolved anomalies of any age and
\* resolved ones detected less than 24 hours ago stay.
C14_RemovedIffADayOldResolved == CleanupRemovesExactly(ResolvedAtLeastADay)

\* 36 hours after start-up a pass has detected the second anomaly, the first
\* one being resolved, and has then removed the first one
C14_Witness ==
    /\ now = 3 * Tick
    /\ Len(anomalies) = 1
    /\ anomalies[1].id = 2
    /\ ~anomalies[1].autoResolved
    /\ anomalies[1].detectedAt = DateNow

----------------------------------------------------------------------------
(* Expiry of recommendations *)

\* What the timer's recommendation pass, and the recommendation analyses of a
\* full analysis, would leave of the collection in this state
AfterUpdate == RecommendationsAfterUpdate(Coll(recommendations, "rec")).items
AfterFullUpdate ==
    AddRecommendations(RecommendationsAfterUpdate(Coll(recommendations, "rec")),
                       optimizeTableAssignments(getChangeHistory)).items

\* A pass removes the recommendations whose validUntil lies before its own
\* time and keeps those whose validUntil is still ahead
OutdatedGone ==
    \A i \in 1..Len(recommendations) :
        LET r == recommendations[i] IN
        /\ r.validUntil = r.createdAt + Week
        /\ (r.validUntil < DateNow =>
                r.id \notin Ids(AfterUpdate) /\ r.id \notin Ids(AfterFullUpdate))
        /\ (r.validUntil > DateNow =>
                r.id \in Ids(AfterUpdate) /\ r.id \in Ids(AfterFullUpdate))

\* No step removes a recommendation whose validUntil is still ahead
ValidStays ==
    \A i \in 1..Len(recommendations) :
        recommendations[i].validUntil > DateNow =>
            recommendations[i].id \in Ids(recommendations')

\* C15: a recommendation pass that runs after a recommendation's validUntil
\* (createdAt + 7 days) removes it, implemented or not, and no step removes a
\* recommendation before its validUntil.
C15_RemovedAfterValidUntil == []OutdatedGone /\ [][ValidStays]_vars

\* ten and a half days after start-up the recommendation of the first day,
\* implemented since, has been removed by a pass
C15_Witness ==
    /\ now = 3 * HalfWeek
    /\ recommendations = <<>>
    /\ Fresh("rec") = 2
    /\ lastCall.op = "markRecommendationImplemented"
    /\ lastCall.arg = 1

----------------------------------------------------------------------------
(* Reading the dashboard *)

CurrentDashboard ==
    DashboardOf(DashboardInsights(insights), DashboardAnomalies(anomalies),
                DashboardRecommendations(recommendations))

\* A call of getDashboard() leaves the three collections as they are and, when
\* the call before it was getDashboard() too, returns the same ids in the same
\* order
C16_ReadStep ==
    getDashboard =>
        /\ insights' = insights
        /\ anomalies' = anomalies
        /\ recommendations' = recommendations
        /\ (lastCall.op = "getDashboard" => lastCall'.dashboard = lastCall.dashboard)

\* C16: getDashboard() does not modify the engine's collections, and as long
\* as no other operation has run since a call, a further call returns the
\* same ids in the same order as that call did.
C16_DashboardIsARead ==
    [][C16_ReadStep]_vars
    /\ [](lastCall.op = "getDashboard" => lastCall.dashboard = CurrentDashboard)

\* a dashboard was returned whose recommendations are in another order than
\* the engine stores them, and the engine's order is still by creation
C16_Witness ==
    /\ lastCall.op = "getDashboard"
    /\ Len(recommendations) >= 2
    /\ lastCall.dashboard.recommendations # MapSeq(recommendations, LAMBDA r : r.id)
    /\ \A i \in 1..(Len(recommendations) - 1) :
           recommendations[i].createdAt <= recommendations[i + 1].createdAt

----------------------------------------------------------------------------
(* The recommendation about assignment resets *)

ResetsRecommended ==
    \E i \in 1..Len(recommendations) :
        /\ recommendations[i].category = "table_assignment"
        /\ recommendations[i].title = "Reduce Need for Assignment Resets"
        /\ recommendations[i].priority = "high"
        /\ ~recommendations[i].implemented

\* C17: after an analysis over a change log holding more than two
\* CLEAR_ALL_ASSIGNMENTS entries, a not implemented high-priority
\* table_assignment recommendation 'Reduce Need for Assignment Resets' is
\* stored (the one the pass added, or the one that was there before).
C17_ResetsRecommendedAfterPass ==
    (lastCall.op = "runFullAnalysis" /\ ClearCount(getChangeHistory) > 2) => ResetsRecommended

----------------------------------------------------------------------------
(* The memory-trend anomaly *)

IsTrendAnomaly(a) == a.type = "capacity_issue" /\ a.title = "Memory Usage Trending Upward"

\* memoryUsage of the last five snapshots
LastMemory == MapSeq(SliceTail(systemHealthMetrics, 5), LAMBDA m : m.memoryUsage)
StrictlyIncreasing(v) == \A i \in 1..(Len(v) - 1) : v[i] < v[i + 1]
NonIncreasing(v) == \A i \in 1..(Len(v) - 1) : v[i] >= v[i + 1]

TrendAdded ==
    \E i \in 1..Len(AfterPass) :
        IsTrendAnomaly(AfterPass[i]) /\ AfterPass[i].id \notin Ids(anomalies)
UnresolvedTrend ==
    \E i \in 1..Len(anomalies) : IsTrendAnomaly(anomalies[i]) /\ ~anomalies[i].autoResolved

TrendRule(minSnapshots) ==
    /\ (Len(systemHealthMetrics) >= minSnapshots /\ StrictlyIncreasing(LastMemory)) =>
            /\ LET trend == calculateTrendDirection(MapSeq(LastMemory, RatInt))
               IN trend.n = 100 * trend.d
            /\ (TrendAdded <=> ~UnresolvedTrend)
    /\ (Len(systemHealthMetrics) >= 5 /\ NonIncreasing(LastMemory)) =>
            /\ ~RatGT(calculateTrendDirection(MapSeq(LastMemory, RatInt)), 0)
            /\ ~TrendAdded

\* C18 as stated: with at least 5 snapshots whose last 5 memoryUsage values
\* rise strictly, a pass adds the memory-trend anomaly unless an unresolved one
\* exists; with constant or falling values the trend is at most 0 and the pass
\* does not add it.
C18_TrendFromFiveSnapshots == TrendRule(5)

\* The rule as the code has it: the same with more than 5 snapshots.
C18_TrendFromSixSnapshots == TrendRule(6)

\* six snapshots rising from 50 MB, and the pass has stored the trend anomaly
C18_Witness ==
    /\ Len(systemHealthMetrics) = 6
    /\ StrictlyIncreasing(LastMemory)
    /\ UnresolvedTrend

----------------------------------------------------------------------------
(* The performance-spike anomaly *)

\* The performance_spike anomalies a pass run in this state would add
SpikesAdded ==
    {i \in 1..Len(AfterPass) :
        AfterPass[i].type = "performance_spike" /\ AfterPass[i].id \notin Ids(anomalies)}
UnresolvedSpike ==
    \E i \in 1..Len(anomalies) :
        /\ anomalies[i].type = "performance_spike"
        /\ anomalies[i].title = "Performance Degradation Detected"
        /\ ~anomalies[i].autoResolved

\* C19: with no unresolved 'Performance Degradation Detected' anomaly stored, a
\* pass over samples of mean duration d adds no performance_spike anomaly when
\* d <= 2000 and exactly one when d > 2000, whose current value is d, whose
\* baseline is 800 and whose severity is 'critical' when d > 5000, else 'high'.
C19_SpikeAboveTwoSeconds ==
    LET d == getPerformanceAnalytics.averageDuration IN
    ~UnresolvedSpike =>
        IF d.n > 2000 * d.d
        THEN /\ Cardinality(SpikesAdded) = 1
             /\ \A i \in SpikesAdded :
                    /\ AfterPass[i].current.n * d.d = d.n * AfterPass[i].current.d
                    /\ AfterPass[i].baseline.n = 800 * AfterPass[i].baseline.d
                    /\ AfterPass[i].severity = (IF d.n > 5000 * d.d THEN "critical" ELSE "high")
        ELSE SpikesAdded = {}

\* two samples of 1000 ms and 4000 ms, mean 2500 ms, and the pass has stored a
\* spike of severity 'high' with that mean
C19_Witness ==
    /\ Len(performanceMetrics) = 2
    /\ SumDurations(performanceMetrics) = 5000
    /\ \E i \in 1..Len(anomalies) :
           /\ anomalies[i].type = "performance_spike"
           /\ anomalies[i].severity = "high"
           /\ anomalies[i].current = Rat(5000, 2)
           /\ anomalies[i].baseline = RatInt(800)

----------------------------------------------------------------------------
(* The full analysis *)

Range(s) == {s[i] : i \in 1..Len(s)}

\* The ids handed out for a collection during the step
NewIds(prefix) == Fresh(prefix)..(nextId'[prefix] - 1)

\* Each new item is in the returned list, unless the collection is at its cap
Returned(prefix, list, items, cap) ==
    \A id \in NewIds(prefix) : id \in Range(list) \/ Len(items) = cap

\* A full analysis leaves the collections as the five analyses, each run once
\* and in the order of the call, leave them, and returns a dashboard with
\* every item they added
C20_AnalysisStep ==
    runFullAnalysis =>
        /\ anomalies' = AnomaliesAfterDetection(Coll(anomalies, "anomaly")).items
        /\ insights' =
              InsightsAfterPatterns(InsightsAfterGeneration(Coll(insights, "insight"))).items
        /\ recommendations' =
              AddRecommendations(RecommendationsAfterUpdate(Coll(recommendations, "rec")),
                                 optimizeTableAssignments(getChangeHistory)).items
        /\ lastCall'.op = "runFullAnalysis" /\ lastCall'.outcome = "returned"
        /\ Returned("anomaly", lastCall'.dashboard.anomalies, anomalies', MaxAnomalies)
        /\ Returned("insight", lastCall'.dashboard.insights, insights', MaxInsights)
        /\ Returned("rec", lastCall'.dashboard.recommendations, recommendations',
                    MaxRecommendations)

\* C20: runFullAnalysis() has run the anomaly pass, the insight pass, the
\* recommendation pass, the pattern analysis and the table-assignment analysis
\* once each when it returns, and the dashboard it returns lists every item
\* they added in that run, unless the cap of its collection has cut it.
C20_FullAnalysisReturnsAllAdded == [][C20_AnalysisStep]_vars

\* a full analysis has returned a dashboard with an anomaly, insights of the
\* insight pass and of the pattern analysis, and a recommendation
C20_Witness ==
    /\ lastCall.op = "runFullAnalysis"
    /\ lastCall.dashboard.anomalies # <<>>
    /\ Len(lastCall.dashboard.insights) >= 2
    /\ lastCall.dashboard.recommendations # <<>>
    /\ lastCall.dashboard = CurrentDashboard

----------------------------------------------------------------------------
(* Callbacks in any order *)

DedupAndCaps ==
    /\ UnresolvedUnique
    /\ InsightUnique
    /\ NotImplementedUnique
    /\ C10_WithinCaps

\* What a step does to the three collections is what one whole operation does
\* to them as it finds them: nothing, one of the three passes with its
\* clean-up, the full analysis, one resolveAnomaly or one
\* markRecommendationImplemented
WholeOperation ==
    \/ UNCHANGED engineVars
    \/ anomalies' = AfterPass /\ UNCHANGED <<insights, recommendations>>
    \/ insights' = AfterGeneration /\ UNCHANGED <<anomalies, recommendations>>
    \/ recommendations' = AfterUpdate /\ UNCHANGED <<insights, anomalies>>
    \/ /\ anomalies' = AfterPass
       /\ insights' = AfterFullGeneration
       /\ recommendations' = AfterFullUpdate
    \/ /\ \E i \in 1..Len(anomalies) :
              anomalies' = AnomaliesResolved(anomalies, anomalies[i].id)
       /\ UNCHANGED <<insights, recommendations>>
    \/ /\ \E i \in 1..Len(recommendations) :
              recommendations' = RecommendationsMarked(recommendations, recommendations[i].id,
                                                       NoImpact)
       /\ UNCHANGED <<insights, anomalies>>

\* C21: whatever the order of the timer callbacks, the one-shot and on-demand
\* full analyses and the Resolve / Implement calls, every step applies one
\* whole operation to the collections as the previous one left them, and in
\* every reachable state the collections have no two unresolved anomalies of
\* one (type, title), no two insights of one (type, title), no two pending
\* recommendations of one (category, title), and are within their caps.
C21_WholeOperationsKeepInvariants == []DedupAndCaps /\ [][WholeOperation]_vars

\* timers and buttons have interleaved: a resolved anomaly and an implemented
\* recommendation each stand next to a newer pending one of the same key
C21_Witness ==
    /\ \E i, j \in 1..Len(anomalies) :
          /\ anomalies[i].autoResolved
          /\ ~anomalies[j].autoResolved
          /\ SameAnomalyKey(anomalies[i], anomalies[j])
    /\ \E i, j \in 1..Len(recommendations) :
          /\ recommendations[i].implemented
          /\ ~recommendations[j].implemented
          /\ SameRecommendationKey(recommendations[i], recommendations[j])
    /\ insights # <<>>

----------------------------------------------------------------------------
(* Missing aggregator outputs *)

\* A health payload its rules cannot use: missing, or without a current snapshot
HealthUnusable(m) == m.health \/ systemHealthMetrics = <<>>

\* The rules that read one payload add nothing when it is missing
GuardedRulesIdle(m) ==
    /\ m.performance =>
          /\ detectPerformanceAnomalies(PerformanceGiven(m)) = <<>>
          /\ generatePerformancePredictions(PerformanceGiven(m), getChangeHistory) = <<>>
          /\ generateSystemOptimizationRecommendations(PerformanceGiven(m)) = <<>>
          /\ generateCapacityPlanningRecommendations(PerformanceGiven(m), BehaviorGiven(m)) = <<>>
    /\ m.behavior =>
          /\ detectBehaviorAnomalies(BehaviorGiven(m)) = <<>>
          /\ generateBehaviorPredictions(BehaviorGiven(m)) = <<>>
          /\ generateUserExperienceRecommendations(BehaviorGiven(m)) = <<>>
          /\ generateCapacityPlanningRecommendations(PerformanceGiven(m), BehaviorGiven(m)) = <<>>
    /\ HealthUnusable(m) =>
          /\ detectSystemHealthAnomalies(HealthGiven(m)) = <<>>
          /\ generateSystemHealthPredictions(HealthGiven(m)) = <<>>

OptimizationIdle(m) ==
    generateOptimizationInsights(PerformanceGiven(m), BehaviorGiven(m), HealthGiven(m)) = <<>>

\* What a pass adds is what the rules of its payloads give
PassesComplete(m) ==
    /\ Len(AnomaliesDetected(Coll(anomalies, "anomaly"), PerformanceGiven(m),
                              BehaviorGiven(m), HealthGiven(m)).items) <= MaxAnomalies
    /\ Len(InsightsGenerated(Coll(insights, "insight"), PerformanceGiven(m),
                              BehaviorGiven(m), HealthGiven(m)).items) <= MaxInsights
    /\ Len(RecommendationsUpdated(Coll(recommendations, "rec"), PerformanceGiven(m),
                                   BehaviorGiven(m)).items) <= MaxRecommendations

\* C22 as stated: with a payload missing (performance, behaviour or health,
\* or a health payload without a current snapshot) every rule that is handed
\* that payload, the optimization-insight rule included, adds nothing, and
\* the three passes complete.
C22_MissingPayloadNoOp ==
    \A m \in Masks :
        /\ GuardedRulesIdle(m)
        /\ (m.performance \/ m.behavior \/ HealthUnusable(m)) => OptimizationIdle(m)
        /\ PassesComplete(m)

\* C22, amended: with a payload missing every rule that is handed that payload
\* adds nothing, except the optimization-insight rule, which adds nothing when
\* all three payloads are missing and otherwise scores the payloads that are
\* there and adds its insight when that score is below 80; the three passes
\* complete.
C22_MissingPayloadNoOpButOptimization ==
    \A m \in Masks :
        /\ GuardedRulesIdle(m)
        /\ (m.performance /\ m.behavior /\ HealthUnusable(m)) => OptimizationIdle(m)
        /\ ~OptimizationIdle(m) <=>
              calculateSystemScore(PerformanceGiven(m), BehaviorGiven(m), HealthGiven(m)) < 80
        /\ PassesComplete(m)

\* an insight pass without the performance payload has run on a history whose
\* load the performance rule would have reported: the behaviour insight is
\* there, the load insight is not
C22_Witness ==
    /\ lastCall.op = "generatePredictiveInsights"
    /\ lastCall.arg = 1
    /\ generatePerformancePredictions(getPerformanceAnalytics, getChangeHistory) # <<>>
    /\ \E i \in 1..Len(insights) : insights[i].title = "Peak Usage Period Predicted"
    /\ \A i \in 1..Len(insights) : insights[i].type # "performance"

----------------------------------------------------------------------------
(* The health performance score *)

\* 100 - 2 x errorRate - (averageResponseTime - 500) / 10 above 500
\* - (memoryUsage - 50) / 2 above 50, as a number of ScoreUnits-ths
ScoreUnits(current) == 20 * current.errorRate.d * current.averageResponseTime.d
RawScore(current) ==
    LET e == current.errorRate
        r == current.averageResponseTime
        m == current.memoryUsage
    IN 100 * ScoreUnits(current)
       - 40 * e.n * r.d
       - (IF r.n > 500 * r.d THEN 2 * (r.n - 500 * r.d) * e.d ELSE 0)
       - (IF m > 50 THEN 10 * (m - 50) * e.d * r.d ELSE 0)

Clamped(x, low, high) == IF x < low THEN low ELSE IF x > high THEN high ELSE x

\* C23: the health performance score is 100 - 2 x errorRate, minus
\* (averageResponseTime - 500) / 10 when averageResponseTime > 500, minus
\* (memoryUsage - 50) / 2 when memoryUsage > 50, of the most recent snapshot,
\* clamped to [0, 100]; it is 100 when no snapshot has been recorded.
C23_ScoreFormula ==
    LET score == getSystemHealthAnalytics.performanceScore IN
    IF systemHealthMetrics = <<>> THEN score.n = 100 * score.d
    ELSE LET current == systemHealthMetrics[Len(systemHealthMetrics)] IN
         /\ score.d > 0
         /\ score.n * ScoreUnits(current)
               = score.d * Clamped(RawScore(current), 0, 100 * ScoreUnits(current))
         /\ 0 <= score.n /\ score.n <= 100 * score.d

\* a snapshot with failures, slow responses and high memory, none of the
\* three penalties being cut off: the score is strictly between 0 and 100
C23_Witness ==
    /\ systemHealthMetrics # <<>>
    /\ LET current == systemHealthMetrics[Len(systemHealthMetrics)]
           score == getSystemHealthAnalytics.performanceScore
       IN /\ current.errorRate.n > 0
          /\ RatGT(current.averageResponseTime, 500)
          /\ current.memoryUsage > 50
          /\ 0 < score.n /\ score.n < 100 * score.d
    /\ anomalies # <<>>

----------------------------------------------------------------------------
(* The trend-direction heuristic *)

\* memoryUsage of the last k snapshots, the window the rules hand to the heuristic
MemoryWindow(k) == MapSeq(SliceTail(systemHealthMetrics, k), LAMBDA m : m.memoryUsage)

\* The number of positions of v that hold more than the position before
RECURSIVE Increases(_)
Increases(v) ==
    IF Len(v) < 2 THEN 0
    ELSE (IF v[2] > v[1] THEN 1 ELSE 0) + Increases(Tail(v))

TrendOfWindow(v) ==
    LET n == Len(v)
        trend == calculateTrendDirection(MapSeq(v, RatInt))
    IN /\ trend.d > 0
       /\ n < 2 => trend.n = 0
       /\ n >= 2 => trend.n * (n - 1) = 100 * Increases(v) * trend.d
       /\ 0 <= trend.n /\ trend.n <= 100 * trend.d
       /\ NonIncreasing(v) => trend.n = 0
       /\ (n >= 2 /\ StrictlyIncreasing(v)) => trend.n = 100 * trend.d

\* C24: on a window of fewer than 2 values the trend direction is 0, otherwise
\* it is 100 x (number of positions holding more than the one before) /
\* (n - 1); it lies between 0 and 100, is 0 on every constant or non-increasing
\* window and 100 on every strictly increasing one.
C24_TrendIsShareOfIncreases ==
    \A k \in 0..Len(systemHealthMetrics) : TrendOfWindow(MemoryWindow(k))

\* the anomaly pass has applied the heuristic to five readings that rise,
\* stay and fall: two increases in four positions, a trend of 50
C24_Witness ==
    /\ Len(systemHealthMetrics) = 6
    /\ ~StrictlyIncreasing(LastMemory) /\ ~NonIncreasing(LastMemory)
    /\ Increases(LastMemory) = 2
    /\ \E i \in 1..Len(LastMemory) - 1 : LastMemory[i] = LastMemory[i + 1]
    /\ UnresolvedTrend

----------------------------------------------------------------------------
(* The health snapshot *)

\* The positions of the change log stamped within the last minute
TrailingMinute == {i \in 1..Len(store) : store[i].timestamp > DateNow - Minute}
\* The positions of the last ten performance samples
TrailingSamples == {i \in 1..Len(performanceMetrics) : i > Len(performanceMetrics) - 10}

RECURSIVE DurationSum(_)
DurationSum(positions) ==
    IF positions = {} THEN 0
    ELSE LET i == CHOOSE j \in positions : TRUE
         IN performanceMetrics[i].duration + DurationSum(positions \ {i})

C25_TickStep ==
    systemHealthMetrics' # systemHealthMetrics =>
        LET snapshot == systemHealthMetrics'[Len(systemHealthMetrics')]
            failures == {i \in TrailingMinute : store[i].action_type = "SYSTEM"}
        IN /\ Len(systemHealthMetrics) < MaxMetrics =>
                 systemHealthMetrics' = Append(systemHealthMetrics, snapshot)
           /\ snapshot.timestamp = DateNow
           /\ snapshot.operationsPerMinute = Cardinality(TrailingMinute)
           /\ snapshot.errorRate.d > 0
           /\ snapshot.errorRate.n * Cardinality(TrailingMinute)
                 = 100 * Cardinality(failures) * snapshot.errorRate.d
           /\ TrailingMinute = {} => snapshot.errorRate.n = 0
           /\ snapshot.averageResponseTime.d > 0
           /\ snapshot.averageResponseTime.n * Cardinality(TrailingSamples)
                 = DurationSum(TrailingSamples) * snapshot.averageResponseTime.d
           /\ TrailingSamples = {} => snapshot.averageResponseTime.n = 0

\* C25: a tick of the health timer appends exactly one snapshot, stamped with
\* the time of the tick, whose operationsPerMinute is the number of change-log
\* entries of the trailing minute, whose errorRate is 100 x the SYSTEM entries
\* among them over their number (0 when there is none), and whose
\* averageResponseTime is the mean duration of the last ten performance
\* samples (0 when there is none).
C25_SnapshotOfTrailingWindows == [][C25_TickStep]_vars

\* a snapshot taken when one entry was older than a minute, one of the recent
\* entries a failure, and the first of eleven samples, a slow one, out of the
\* last ten
C25_Witness ==
    /\ systemHealthMetrics # <<>>
    /\ Len(performanceMetrics) > 10
    /\ performanceMetrics[1].duration > 0
    /\ LET snapshot == systemHealthMetrics[Len(systemHealthMetrics)]
       IN /\ snapshot.timestamp = DateNow
          /\ snapshot.operationsPerMinute > 0
          /\ snapshot.operationsPerMinute < Len(store)
          /\ snapshot.errorRate.n > 0
          /\ snapshot.averageResponseTime.n > 0

----------------------------------------------------------------------------
(* A rule that fires at every insight pass *)

OptimizationTitle == "System Optimization Opportunities Identified"

\* The optimization rule fires on the analytics of this state
OptimizationDue ==
    generateOptimizationInsights(getPerformanceAnalytics, getUserBehaviorAnalytics,
                                 getSystemHealthAnalytics) # <<>>

\* The rule fires at every insight pass of SpecRecurring
OptimizationDueAtEveryPass == systemHealthMetrics # <<>> => OptimizationDue

HasInsight(items, type, title) ==
    \E i \in 1..Len(items) : items[i].type = type /\ items[i].title = title

\* C26: when an insight rule's condition holds at every insight-generation
\* pass, the collection holds an insight of the rule's (type, title) after
\* every pass, also after the pass that purges the expired one.
C26_RecurringInsightPresent ==
    [][generatePredictiveInsights /\ OptimizationDue
          => HasInsight(insights', "optimization", OptimizationTitle)]_vars

----------------------------------------------------------------------------
(* Capacity planning *)

HasCapacityPlanning(items) ==
    \E i \in 1..Len(items) : items[i].category = "capacity_planning"

\* C27: in every reachable state the recommendation collection holds no
\* recommendation of category capacity_planning: totalOperations, the length
\* of the performance series, is never above 1000, and totalSessions, the
\* number of distinct session ids among the behaviour samples, never above 1,
\* so the one rule that creates such a recommendation never fires.
C27_NoCapacityPlanning ==
    LET performanceData == getPerformanceAnalytics
        behaviorData == getUserBehaviorAnalytics
    IN /\ ~HasCapacityPlanning(recommendations)
       /\ performanceData.totalOperations = Len(performanceMetrics)
       /\ performanceData.totalOperations <= 1000
       /\ behaviorData.totalSessions <= 1
       /\ generateCapacityPlanningRecommendations(performanceData, behaviorData) = <<>>

\* the pass has run in a later period on the full performance series, which
\* had overflowed in the period before, an interaction having been tracked
C27_Witness ==
    /\ Fresh("op") = SeriesTarget + 1
    /\ Len(performanceMetrics) = MaxMetrics
    /\ performanceMetrics[1].operationId > 1
    /\ performanceMetrics[MaxMetrics].endTime = PeriodStart(PrefillLen + 1)
    /\ Len(userBehaviorMetrics) = MaxMetrics
    /\ getUserBehaviorAnalytics.totalSessions = 1
    /\ recommendations # <<>>
    /\ recommendations[1].createdAt > TimeOrigin + PeriodStart(PrefillLen + 1)

----------------------------------------------------------------------------
(* An anomaly that comes back after it was resolved *)

\* What the detection rules produce on the analytics of this state
DetectedNow ==
    detectPerformanceAnomalies(getPerformanceAnalytics)
    \o detectBehaviorAnomalies(getUserBehaviorAnalytics)
    \o detectSystemHealthAnomalies(getSystemHealthAnalytics)

StillFires(a) == \E k \in 1..Len(DetectedNow) : SameAnomalyKey(DetectedNow[k], a)

NoneUnresolved(a) ==
    \A i \in 1..Len(anomalies) :
        SameAnomalyKey(anomalies[i], a) => anomalies[i].autoResolved

\* A pass run in this state adds, for a resolved anomaly whose rule still fires
\* and whose pair has no unresolved anomaly, a new unresolved one of the pair
ResolvedComesBack ==
    \A i \in 1..Len(anomalies) :
        LET a == anomalies[i] IN
        (a.autoResolved /\ StillFires(a) /\ NoneUnresolved(a)) =>
            \E j \in 1..Len(AfterPass) :
                /\ SameAnomalyKey(AfterPass[j], a)
                /\ ~AfterPass[j].autoResolved
                /\ AfterPass[j].id \notin Ids(anomalies)
                /\ AfterPass[j].id # a.id
                /\ AfterPass[j].detectedAt = DateNow

\* A pass run in this state keeps the resolved anomalies that are not old(a),
\* the cap of 100 permitting, and removes the others
ResolvedStaysUntil(old(_)) ==
    \A i \in 1..Len(anomalies) :
        LET a == anomalies[i] IN
        a.autoResolved =>
            /\ (~old(a) /\ Len(AfterPass) < MaxAnomalies => a \in Range(AfterPass))
            /\ (old(a) => a.id \notin Ids(AfterPass))

MoreThanADayOld(a) == a.detectedAt < DateNow - Day
ADayOldOrMore(a) == a.detectedAt <= DateNow - Day

\* C28 as stated: after resolveAnomaly(id), a pass at which the rule still
\* fires adds a new unresolved anomaly of the same (type, title) with another
\* id, the resolved one stays until it is resolved and more than 24 hours old,
\* and at most one anomaly of a pair is unresolved.
C28_ResolvedStaysWhileADayOld ==
    UnresolvedUnique /\ ResolvedComesBack /\ ResolvedStaysUntil(MoreThanADayOld)

\* C28, amended: after resolveAnomaly(id), a pass at which the rule still fires
\* adds a new unresolved anomaly of the same (type, title) with another id; the
\* resolved one stays, unless the cap of 100 trims it, until a pass finds it
\* detected 24 hours ago or earlier; and at most one anomaly of a pair is
\* unresolved.
C28_ResolvedStaysBelowADay ==
    UnresolvedUnique /\ ResolvedComesBack /\ ResolvedStaysUntil(ADayOldOrMore)

\* twelve hours after the memory anomaly was detected and resolved a pass has
\* added it again under a new id, next to the resolved one
C28_Witness ==
    \E i, j \in 1..Len(anomalies) :
        /\ SameAnomalyKey(anomalies[i], anomalies[j])
        /\ anomalies[i].autoResolved
        /\ anomalies[i].detectedAt = TimeOrigin
        /\ ~anomalies[j].autoResolved
        /\ anomalies[j].detectedAt = TimeOrigin + Tick
        /\ anomalies[j].id > anomalies[i].id

----------------------------------------------------------------------------
(* Overlapping tracked operations *)

\* The calls whose work has settled, and those that have completed
PastOperation == {c \in 1..Len(calls) : calls[c].pc \in {"awaitLogChange", "settled"}}
Completed == {c \in 1..Len(calls) : calls[c].pc = "settled"}

FailureEntries ==
    {i \in 1..Len(store) : store[i].action_type = "SYSTEM" /\ store[i].error_details # ""}

----------------------------------------------------------------------------
(* The trend labels of the dashboard *)

\* C30: in every reachable state trendAnalysis.performance and
\* trendAnalysis.userSatisfaction (lower is better) are "stable" or
\* "declining", never "improving"; trendAnalysis.efficiency (higher is better)
\* is "stable" or "improving", never "declining"; and
\* trendAnalysis.systemHealth is "improving" or "declining", never "stable":
\* the trend direction the labels are derived from is never negative.
C30_TrendLabelsRestricted ==
    /\ trendAnalysis.performance \in {"stable", "declining"}
    /\ trendAnalysis.userSatisfaction \in {"stable", "declining"}
    /\ trendAnalysis.efficiency \in {"stable", "improving"}
    /\ trendAnalysis.systemHealth \in {"improving", "declining"}
    /\ ~RatLT(calculateTrendDirection(MapSeq(SliceTail(getOperationFrequency, 3),
                                             LAMBDA item : RatInt(item.count))), 0)

\* the dashboard was read when three kinds of operation had run, one of them
\* more often than the others, three error-prone paths were known and the
\* health snapshot scored above 80
C30_Witness ==
    /\ lastCall.op = "getDashboard"
    /\ Len(getOperationFrequency) >= 3
    /\ getOperationFrequency[1].count > getOperationFrequency[2].count
    /\ Len(getErrorPronePaths) >= 3
    /\ systemHealthMetrics # <<>>
    /\ trendAnalysis.performance = "stable"
    /\ trendAnalysis.userSatisfaction = "stable"
    /\ trendAnalysis.efficiency = "stable"
    /\ trendAnalysis.systemHealth = "improving"

====
